---- MODULE Spec2Model ----
(***************************************************************************)
(* Model of the darkSCOPE memory reader (src/darkAgent/memory_tools.py,    *)
(* memory_offsets.py, memory_test.py).                                     *)
(*                                                                         *)
(* The specifications share the variables:                                 *)
(*   SpecMem   reads of the target's memory: read_exact, the typed         *)
(*             readers, the chain walker and the health reads of main;     *)
(*   SpecMaps  module_base over a listing of /proc/<pid>/maps;             *)
(*   SpecFind  setup_memory_reader: find_game_pid over the process table,  *)
(*             then module_base;                                           *)
(*   SpecPoll  memory_test.main: setup, the open of /proc/<pid>/mem and    *)
(*             the polling loop over it;                                   *)
(*   SpecSave  save_manager.py: dump and load of scenario saves;           *)
(*   SpecRun   run_instance.py: launching the selected instances;          *)
(*   SpecGen   generate_config.py: initialising one instance's save folder;*)
(*   SpecMenu  input_test.py: the keypress menu loop;                      *)
(*   SpecInput input_test.py / x11_input.py: one injected action.          *)
(* Each specification holds the variables of the others at their idle      *)
(* values.                                                                 *)
(***************************************************************************)
EXTENDS Integers, Sequences, FiniteSets, TLC

VARIABLES
    \* ---- the target's address space (/proc/<pid>/mem) ----
    mem,        \* cell address -> the bytes mapped from that address on
    alive,      \* FALSE once the target process has exited
    \* ---- one request against the memory ----
    pc,         \* "idle" | "walk" | "done"
    op,         \* which operation ran: "none" | "read_exact" | "typed" | "chain" | "health" | "decode" | "field"
    root,       \* root address of the request
    offsets,    \* offset chain of the request
    ftype,      \* type tag of the request
    reqlen,     \* byte count asked of read_exact
    current,    \* walker: the current pointer
    hop,        \* walker: 1-based index of the next offset to apply
    reads,      \* every mem.read issued for the request: <<[addr, n, got]>>
    outcome,    \* result of the request
    buf,        \* the byte slice handed to struct.unpack directly
    \* ---- module_base over one maps listing ----
    listing,    \* the lines of /proc/<pid>/maps, as indices into MapsLines
    mbpc,       \* "idle" | "done"
    mbres,      \* what module_base returned or raised
    \* ---- setup_memory_reader: the process table and the scan over it ----
    procdir,    \* os.listdir("/proc"), in the order it is produced
    procs,      \* pid -> [cmd, env, maps]: what the files under /proc/<pid> hold
    gone,       \* pids that have exited: nothing under /proc/<pid> opens any more
    instance,   \* the instance asked for ("none": no instance)
    fpc,        \* "start" | "scan" | "found" | "done" | "failed"
    idx,        \* find_game_pid: 1-based position in procdir
    wineprefix, \* [some, val]: the wineprefix argument of find_game_pid
    pid,        \* the pid find_game_pid returned (0: none)
    visited,    \* one record per entry the scan has dealt with
    setup,      \* what setup_memory_reader returned or raised
    \* ---- memory_test.main: the polling session ----
    sess,       \* "Idle" | "Resolving" | "Active" | "Stopped" | "Failed"
    arity,      \* how many values the installed setup_memory_reader returns
    mline,      \* the line of memory_test.py main executes next (0: main has ended)
    tick,       \* turns of the while loop completed
    main,       \* the local variables of main
    outs,       \* this turn's walks so far: <<[walk, out]>>
    treads,     \* this turn's mem.read calls so far: <<[line, hop, addr, n, got]>>
    handles,    \* files open on /proc/<pid>/mem
    opened,     \* open() calls on /proc/<pid>/mem that succeeded
    serr,       \* the exception main ended with
    calls,      \* the discovery functions called, in order
    badticks,   \* turns in a row, up to now, in which a read raised
    sigint,     \* SIGINT has arrived and KeyboardInterrupt is not yet raised
    clock,      \* time since the loop was entered, in half periods of POLL_HZ
    started,    \* the clock at the top of each turn so far
    \* ---- save_manager.py: the save files ----
    active,     \* content of save_dir/DRAKS0005.sl2 ("none": no such file)
    scen,       \* scenario name -> "absent" | "nofile" | content of its DRAKS0005.sl2
    backups,    \* contents copied under backups/, oldest first
    scmd,       \* the last command run and how it ended
    sbefore,    \* active and scen as they were when the last command started
    ncmds,      \* commands run so far
    \* ---- run_instance.py: main and its children ----
    rglobal,    \* what main finds at CONFIG_PATH and RUN_GAME
    rcfg,       \* instance name -> its entry in the config
    rargs,      \* the command line
    rsel,       \* selected
    rpc,        \* main's position
    ri,         \* index into selected of the instance being launched / waited for
    rstarted,   \* indices whose Popen has been made
    rprocs,     \* procs
    rchild,     \* index -> state of the child process
    rterm,      \* indices sent terminate()
    rkilled,    \* indices sent kill()
    rsig,       \* SIGINT delivered to main and not yet raised
    rexit,      \* how main ended ("running" until then)
    rcode,      \* main's return value
    \* ---- generate_config.py: _init_save_folder_for_instance ----
    groot,      \* save_root: whether it is a directory, and its entries
    grungame,   \* RUN_GAME.is_file()
    gtimeout,   \* timeout_sec
    gstub,      \* the game process does not exit on SIGTERM within 5 s
    gpc,        \* position in the function
    gnow,       \* time.time(), in half seconds
    gdeadline,  \* deadline, in half seconds
    gproc,      \* the headless game process
    gterm,      \* proc.terminate() was called
    guser,      \* user_id
    gres,       \* "none", "returned", or the error the function exits with
    gseen,      \* the ids _find_numeric_id_dir has returned
    \* ---- input_test.py: _run_menu_loop_keypress ----
    pending_1,  \* pending_1
    pel,        \* time since pending_deadline was set, in hundredths of a second
    kbuf,       \* keys typed and not yet read; late: typed at or after the deadline
    mpc,        \* "top" of the loop, inside "getch", or "quit"
    wleft,      \* what is left of getch's timeout
    ran,        \* the action numbers executed so far
    nkeys,      \* keys typed so far
    lastres,    \* how the last pending '1' was resolved
    \* ---- x11_input.py / _execute_action: one injection ----
    xcall,      \* the call being made
    xops,       \* the input operations the call makes, in order
    xi,         \* index of the next operation
    held,       \* keys and buttons down at the X server
    xevents,    \* the events sent so far
    xraised,    \* an exception is propagating
    xpc         \* "idle", "run" or "done"

memvars == <<mem, alive, pc, op, root, offsets, ftype, reqlen, current, hop, reads, outcome, buf>>
mapsvars == <<listing, mbpc, mbres>>
findvars == <<procdir, procs, gone, instance, fpc, idx, wineprefix, pid, visited, setup>>
pollvars ==
    <<sess, arity, mline, tick, main, outs, treads, handles, opened, serr, calls, badticks,
      sigint, clock, started>>
savevars == <<active, scen, backups, scmd, sbefore, ncmds>>
corevars == <<memvars, mapsvars, findvars, pollvars>>
runvars == <<rglobal, rcfg, rargs, rsel, rpc, ri, rstarted, rprocs, rchild, rterm, rkilled,
             rsig, rexit, rcode>>
genvars == <<groot, grungame, gtimeout, gstub, gpc, gnow, gdeadline, gproc, gterm, guser, gres,
             gseen>>
menuvars == <<pending_1, pel, kbuf, mpc, wleft, ran, nkeys, lastres>>
inputvars == <<xcall, xops, xi, held, xevents, xraised, xpc>>
toolvars == <<savevars, runvars, genvars, menuvars, inputvars>>
vars == <<corevars, toolvars>>

(***************************************************************************)
(* Offsets (memory_offsets.py)                                             *)
(***************************************************************************)
OFF_STRUCT_PTR == 104
OFF_HP == 1000
OFF_HPMAX == 1004
BASEX_PTRLOC_RVA == 29851216
BASEB_PTRLOC_RVA == 29926704
BOSS_BASE_PTRLOC_RVA == 29893536
OFF_DEATH_NUM == 152
ASYLUM_DEMON_OFFSETS == <<8, 40, 1000>>

(***************************************************************************)
(* Bounds of the model                                                     *)
(***************************************************************************)
\* longest offset chain walked
MaxChain == 2
\* largest byte count asked of read_exact directly
MaxRead == 9
\* most lines in a maps listing handed to module_base
MaxLines == 3
\* processes under /proc
NProcs == 2
\* turns of the polling loop followed
MaxTicks == 2
\* longest time the statements of one turn take, in half periods of POLL_HZ
MaxLatency == 1
\* save_manager commands run one after another
MaxCmds == 2
\* most instances named on run_instance's command line
MaxSel == 2
\* largest --init-timeout-sec
MaxTimeout == 1
\* keys typed at the menu
MaxKeys == 3
\* longest time one render takes, in hundredths of a second
MaxRender == 1

(***************************************************************************)
(* The address space.  Two structures live at BaseA and BaseB; each has a  *)
(* pointer cell at OFF_STRUCT_PTR and a data cell at OFF_HP.  A cell maps  *)
(* between 3 and 8 bytes from its address; every other address is          *)
(* unmapped.                                                               *)
(***************************************************************************)
BaseA == 16 * 256
BaseB == 32 * 256
Bases == {BaseA, BaseB}

PtrCells == {b + OFF_STRUCT_PTR : b \in Bases}
DataCells == {b + OFF_HP : b \in Bases}
CellAddrs == PtrCells \cup DataCells

\* little-endian images
PtrToA == <<0, 16, 0, 0, 0, 0, 0, 0>>
PtrToB == <<0, 32, 0, 0, 0, 0, 0, 0>>
Val450 == <<194, 1, 0, 0, 0, 0, 0, 0>>
ValMinus1 == <<255, 255, 255, 255>>
Cut3 == <<0, 16, 0>>

PtrCellVals == {PtrToA, PtrToB, Val450, Cut3}
DataCellVals == {Val450, ValMinus1, PtrToB}

Memories == {m \in [CellAddrs -> PtrCellVals \cup DataCellVals] :
                /\ \A c \in PtrCells : m[c] \in PtrCellVals
                /\ \A c \in DataCells : m[c] \in DataCellVals}

\* The memory of a running game behind the module base 0x1000: the three
\* static pointer cells, the player structure (baseX -> BaseA -> BaseB), the
\* game data (baseB -> BaseA) and the boss chain (BaseB -> BaseA -> BaseA).
GameBase == 16 * 256
NullPtr == <<0, 0, 0, 0, 0, 0, 0, 0>>
Val7 == <<7, 0, 0, 0>>
Val300 == <<44, 1, 0, 0>>

PollMem(x, b, s) ==
    (GameBase + BASEX_PTRLOC_RVA :> x)
        @@ (BaseA + OFF_STRUCT_PTR :> PtrToB)
        @@ (BaseB + OFF_HP :> Val450)
        @@ (GameBase + BASEB_PTRLOC_RVA :> b)
        @@ (BaseA + OFF_DEATH_NUM :> Val7)
        @@ (GameBase + BOSS_BASE_PTRLOC_RVA :> s)
        @@ (BaseB + ASYLUM_DEMON_OFFSETS[1] :> PtrToA)
        @@ (BaseA + ASYLUM_DEMON_OFFSETS[2] :> PtrToA)
        @@ (BaseA + ASYLUM_DEMON_OFFSETS[3] :> Val300)

\* each static pointer is either valid or leads nowhere (a stale value, a
\* cell cut short, a null pointer while no boss is loaded)
PollMemories ==
    {PollMem(x, b, s) : x \in {PtrToA, Val450}, b \in {PtrToA, Cut3}, s \in {PtrToB, NullPtr}}

Mapped(m, a) == \E c \in DOMAIN m : c <= a /\ a < c + Len(m[c])

ByteAt(m, a) == LET c == CHOOSE c \in DOMAIN m : c <= a /\ a < c + Len(m[c])
                IN m[c][a - c + 1]

\* mem.seek(addr); mem.read(n) on the unbuffered file: the bytes mapped
\* contiguously from addr, at most n of them; nothing once the process is gone.
RECURSIVE MemBytes(_, _, _)
MemBytes(m, addr, n) ==
    IF n <= 0 \/ ~Mapped(m, addr) THEN <<>>
    ELSE <<ByteAt(m, addr)>> \o MemBytes(m, addr + 1, n - 1)

MemRead(m, live, addr, n) == IF live THEN MemBytes(m, addr, n) ELSE <<>>

ReadRec(m, live, addr, n) == [addr |-> addr, n |-> n, got |-> Len(MemRead(m, live, addr, n))]

(***************************************************************************)
(* Outcomes: a value (bytes or val) or a raised exception (err).           *)
(***************************************************************************)
NoOutcome == [ok |-> FALSE, bytes |-> <<>>, val |-> 0, err |-> "none", at |-> 0, hop |-> 0, tag |-> "none"]
OkBytes(b) == [ok |-> TRUE, bytes |-> b, val |-> 0, err |-> "none", at |-> 0, hop |-> 0, tag |-> "none"]
OkVal(v) == [ok |-> TRUE, bytes |-> <<>>, val |-> v, err |-> "none", at |-> 0, hop |-> 0, tag |-> "none"]
Raise(kind, addr) == [ok |-> FALSE, bytes |-> <<>>, val |-> 0, err |-> kind, at |-> addr, hop |-> 0, tag |-> "none"]
\* ValueError(f"Unknown type_str '{type_str}'. ..."): the message carries the tag
UnknownType(t, addr) == [Raise("UnknownType", addr) EXCEPT !.tag = t]

(***************************************************************************)
(* memory_tools.py                                                         *)
(***************************************************************************)
\* read_exact filling a short buffer up to n with zero bytes
read_exact_padded(m, live, addr, n) ==
    LET b == MemRead(m, live, addr, n)
    IN OkBytes(b \o [i \in 1..(n - Len(b)) |-> 0])

\* read_exact with the length test dropped
read_exact_unchecked(m, live, addr, n) == OkBytes(MemRead(m, live, addr, n))

read_exact(m, live, addr, n) ==
    LET b == MemRead(m, live, addr, n)
    IN IF Len(b) # n THEN Raise("ShortRead", addr) ELSE OkBytes(b)

\* struct.unpack("<Q", b)[0]
RECURSIVE UnpackQ(_)
UnpackQ(b) == IF b = <<>> THEN 0 ELSE b[1] + 256 * UnpackQ(Tail(b))

\* struct.unpack("<i", b)[0]: the top byte carries the sign
RECURSIVE UnpackI(_)
UnpackI(b) ==
    IF Len(b) = 1 THEN (IF b[1] >= 128 THEN b[1] - 256 ELSE b[1])
    ELSE b[1] + 256 * UnpackI(Tail(b))

\* struct.unpack with the buffer cut or zero-filled to the format's size
struct_unpack_resizing(t, b, addr) ==
    LET w == IF t = "u64" THEN 8 ELSE 4
        fit == [i \in 1..w |-> IF i <= Len(b) THEN b[i] ELSE 0]
    IN OkVal(IF t = "u64" THEN UnpackQ(fit) ELSE UnpackI(fit))

\* struct.unpack reading the four bytes of an i32 most significant first (">i")
struct_unpack_bigendian_i(t, b, addr) ==
    IF Len(b) # (IF t = "u64" THEN 8 ELSE 4) THEN Raise("StructError", addr)
    ELSE OkVal(IF t = "u64" THEN UnpackQ(b) ELSE UnpackI([i \in 1..4 |-> b[5 - i]]))

\* struct.unpack("<Q", b)[0] / struct.unpack("<i", b)[0]: struct.error unless
\* the buffer has the format's size
struct_unpack(t, b, addr) ==
    IF Len(b) # (IF t = "u64" THEN 8 ELSE 4) THEN Raise("StructError", addr)
    ELSE OkVal(IF t = "u64" THEN UnpackQ(b) ELSE UnpackI(b))

u64(m, live, addr) ==
    LET r == read_exact(m, live, addr, 8)
    IN IF ~r.ok THEN r ELSE struct_unpack("u64", r.bytes, addr)

i32(m, live, addr) ==
    LET r == read_exact(m, live, addr, 4)
    IN IF ~r.ok THEN r ELSE struct_unpack("i32", r.bytes, addr)

\* type_readers(): the registered tags
TypeTags == {"u64", "i32"}
\* a tag no reader is registered for
ConfigTags == TypeTags \cup {"f32"}

Width(t) == IF t = "u64" THEN 8 ELSE 4

\* read_typed with the two readers registered under each other's tag
read_typed_swapped(m, live, addr, t) ==
    IF t \notin TypeTags THEN UnknownType(t, addr)
    ELSE IF t = "u64" THEN i32(m, live, addr)
    ELSE u64(m, live, addr)

\* read_typed taking the i32 reader for a tag it does not know
read_typed_fallback(m, live, addr, t) ==
    IF t = "u64" THEN u64(m, live, addr) ELSE i32(m, live, addr)

read_typed(m, live, addr, t) ==
    IF t \notin TypeTags THEN UnknownType(t, addr)
    ELSE IF t = "u64" THEN u64(m, live, addr)
    ELSE i32(m, live, addr)

\* read_typed_offset losing the offset
read_typed_offset_nooffset(m, live, base, off, t) == read_typed(m, live, base, t)

read_typed_offset(m, live, base, off, t) == read_typed(m, live, base + off, t)

\* the mem.read calls one read_typed issues
TypedReads(m, live, addr, t) ==
    IF t \notin TypeTags THEN <<>> ELSE <<ReadRec(m, live, addr, Width(t))>>

(***************************************************************************)
(* Input domains of the memory requests                                    *)
(***************************************************************************)
Offsets == {OFF_STRUCT_PTR, OFF_HP, OFF_HPMAX}

RECURSIVE SeqsOfLen(_, _)
SeqsOfLen(S, n) ==
    IF n = 0 THEN {<<>>}
    ELSE {Append(q, x) : q \in SeqsOfLen(S, n - 1), x \in S}

Chains == UNION {SeqsOfLen(Offsets, n) : n \in 1..MaxChain}

\* addresses handed to read_exact directly: cell starts, mid-cell, unmapped
ReadAddrs == CellAddrs \cup {c + 4 : c \in CellAddrs} \cup {0}

\* values whose byte images are handed to struct.unpack: unsigned ones below
\* 2^31, signed ones from both ends of the 32-bit range
U64Vals == {0, 1, 450, BaseA, 287454020, 2147483647}
I32Vals == {0 - 1, 0 - 256, (0 - 2147483647) - 1, 0, 450, 2147483647}

\* v.to_bytes(n, "little"), two's complement for a negative v
RECURSIVE ToBytesLE(_, _)
ToBytesLE(v, n) == IF n = 0 THEN <<>> ELSE <<v % 256>> \o ToBytesLE(v \div 256, n - 1)

\* byte slices: the images of the values, and slices of other lengths
Slices ==
    {ToBytesLE(v, 8) : v \in U64Vals} \cup {ToBytesLE(w, 4) : w \in I32Vals}
        \cup {<<>>, Cut3, Val450 \o <<0>>}

(***************************************************************************)
(* Text: a string is a sequence of one-character strings                   *)
(***************************************************************************)
UpperAlpha == <<"A", "B", "C", "D", "E", "F", "G", "H", "I", "J", "K", "L", "M", "N", "O", "P", "Q", "R", "S", "T", "U", "V", "W", "X", "Y", "Z">>
LowerAlpha == <<"a", "b", "c", "d", "e", "f", "g", "h", "i", "j", "k", "l", "m", "n", "o", "p", "q", "r", "s", "t", "u", "v", "w", "x", "y", "z">>
HexDigits == <<"0", "1", "2", "3", "4", "5", "6", "7", "8", "9", "a", "b", "c", "d", "e", "f">>
HexUpper == <<"0", "1", "2", "3", "4", "5", "6", "7", "8", "9", "A", "B", "C", "D", "E", "F">>

IndexOf(c, t) == CHOOSE i \in 1..Len(t) : t[i] = c
InSeq(c, t) == \E i \in 1..Len(t) : t[i] = c

\* needle in hay
Contains(needle, hay) ==
    \/ needle = <<>>
    \/ \E i \in 0..(Len(hay) - Len(needle)) :
          /\ hay[i + 1] = needle[1]
          /\ SubSeq(hay, i + 1, i + Len(needle)) = needle

\* str.lower()
LowerMap == [c \in {UpperAlpha[i] : i \in 1..Len(UpperAlpha)} |-> LowerAlpha[IndexOf(c, UpperAlpha)]]
LowerChar(c) == IF c \in DOMAIN LowerMap THEN LowerMap[c] ELSE c
Lower(t) == [i \in 1..Len(t) |-> LowerChar(t[i])]

IsHexChar(c) == InSeq(c, HexDigits) \/ InSeq(c, HexUpper)
HexDigitVal(c) == IF InSeq(c, HexDigits) THEN IndexOf(c, HexDigits) - 1 ELSE IndexOf(c, HexUpper) - 1

\* int(t, 16)
RECURSIVE IntBase16(_)
IntBase16(t) ==
    IF t = <<>> THEN 0
    ELSE 16 * IntBase16(SubSeq(t, 1, Len(t) - 1)) + HexDigitVal(t[Len(t)])

DecDigits == <<"0", "1", "2", "3", "4", "5", "6", "7", "8", "9">>

\* d.isdigit()
IsDigitStr(t) == t # <<>> /\ \A i \in 1..Len(t) : InSeq(t[i], DecDigits)

\* int(d)
RECURSIVE ParseInt(_)
ParseInt(t) ==
    IF t = <<>> THEN 0
    ELSE 10 * ParseInt(SubSeq(t, 1, Len(t) - 1)) + (IndexOf(t[Len(t)], DecDigits) - 1)

\* the name of process p under /proc
RECURSIVE DecStr(_)
DecStr(p) ==
    IF p < 10 THEN <<DecDigits[p + 1]>>
    ELSE DecStr(p \div 10) \o <<DecDigits[(p % 10) + 1]>>

(***************************************************************************)
(* /proc/<pid>/maps.  A line is the text the file holds; for a line that   *)
(* describes a mapped region, base and path are that region's start        *)
(* address and backing path (base = -1: the line describes no region).     *)
(***************************************************************************)
PROC_SUBSTR == <<"D", "a", "r", "k", "S", "o", "u", "l", "s", "R", "e", "m", "a", "s", "t", "e", "r", "e", "d", ".", "e", "x", "e">>

GamePath == <<"/", "g", "/">> \o PROC_SUBSTR
GamePathLower == <<"/", "g", "/">> \o Lower(PROC_SUBSTR)
LibcPath == <<"/", "l", "i", "b", "/", "l", "i", "b", "c", ".", "s", "o">>

MapsLines == <<
    \* 1000-2000 r-xp /g/DarkSoulsRemastered.exe
    [text |-> <<"1", "0", "0", "0", "-", "2", "0", "0", "0", " ", "r", "-", "x", "p", " ">> \o GamePath,
     path |-> GamePath, base |-> 16 * 256],
    \* 3000-4000 rw-p /g/DarkSoulsRemastered.exe
    [text |-> <<"3", "0", "0", "0", "-", "4", "0", "0", "0", " ", "r", "w", "-", "p", " ">> \o GamePath,
     path |-> GamePath, base |-> 48 * 256],
    \* 7fA0-7fff r--p /lib/libc.so
    [text |-> <<"7", "f", "A", "0", "-", "7", "f", "f", "f", " ", "r", "-", "-", "p", " ">> \o LibcPath,
     path |-> LibcPath, base |-> 127 * 256 + 160],
    \* 5000-6000 r-xp /g/darksoulsremastered.exe
    [text |-> <<"5", "0", "0", "0", "-", "6", "0", "0", "0", " ", "r", "-", "x", "p", " ">> \o GamePathLower,
     path |-> GamePathLower, base |-> 80 * 256],
    \* 10g0-2000 r-xp /g/DarkSoulsRemastered.exe   (no hexadecimal start address)
    [text |-> <<"1", "0", "g", "0", "-", "2", "0", "0", "0", " ", "r", "-", "x", "p", " ">> \o GamePath,
     path |-> GamePath, base |-> -1],
    \* 0010-0020 r-xp /g/DarkSoulsRemastered.exe
    [text |-> <<"0", "0", "1", "0", "-", "0", "0", "2", "0", " ", "r", "-", "x", "p", " ">> \o GamePath,
     path |-> GamePath, base |-> 16]
>>

LineIds == 1..Len(MapsLines)

Listings == UNION {SeqsOfLen(LineIds, n) : n \in 0..MaxLines}

FileLines(l) == [i \in 1..Len(l) |-> MapsLines[l[i]].text]

MbOk(v) == [ok |-> TRUE, val |-> v, err |-> "none"]
MbRaise(kind) == [ok |-> FALSE, val |-> 0, err |-> kind]
MbNone == MbRaise("none")

\* re.match(r"^([0-9a-fA-F]+)-", line): group 1, or <<>> when there is no match
RECURSIVE HexRun(_)
HexRun(t) == IF t = <<>> \/ ~IsHexChar(t[1]) THEN <<>> ELSE <<t[1]>> \o HexRun(Tail(t))

MatchBase(line) ==
    LET g == HexRun(line)
    IN IF g # <<>> /\ Len(line) > Len(g) /\ line[Len(g) + 1] = "-" THEN g ELSE <<>>

\* module_base raising on a matching line that has no base address
RECURSIVE module_base_strict(_, _)
module_base_strict(lines, needle) ==
    IF lines = <<>> THEN MbRaise("ModuleNotFound")
    ELSE IF ~Contains(needle, lines[1]) THEN module_base_strict(Tail(lines), needle)
    ELSE IF MatchBase(lines[1]) # <<>> THEN MbOk(IntBase16(MatchBase(lines[1])))
    ELSE MbRaise("Malformed")

\* module_base keeping the last matching line instead of returning at the first
RECURSIVE module_base_last(_, _)
module_base_last(lines, needle) ==
    IF lines = <<>> THEN MbRaise("ModuleNotFound")
    ELSE LET rest == module_base_last(Tail(lines), needle)
         IN IF rest.ok THEN rest
            ELSE IF Contains(needle, lines[1]) /\ MatchBase(lines[1]) # <<>>
                 THEN MbOk(IntBase16(MatchBase(lines[1])))
                 ELSE rest

\* module_base(pid, needle), over the lines of the opened maps file
RECURSIVE module_base(_, _)
module_base(lines, needle) ==
    IF lines = <<>> THEN MbRaise("ModuleNotFound")
    ELSE IF ~Contains(needle, lines[1]) THEN module_base(Tail(lines), needle)
    ELSE IF MatchBase(lines[1]) # <<>> THEN MbOk(IntBase16(MatchBase(lines[1])))
    ELSE module_base(Tail(lines), needle)

(***************************************************************************)
(* The process table.  /proc holds one directory per process and the entry *)
(* "self"; a process is what its cmdline, environ and maps files hold.     *)
(***************************************************************************)
PidOf(k) == 5 * k + 2
Pids == {PidOf(k) : k \in 1..NProcs}

SelfEntry == <<"s", "e", "l", "f">>

\* enumeration orders of /proc: ascending behind "self", descending before it
ProcDirs ==
    {<<SelfEntry>> \o [k \in 1..NProcs |-> DecStr(PidOf(k))],
     [k \in 1..NProcs |-> DecStr(PidOf(NProcs + 1 - k))] \o <<SelfEntry>>}

NUL == "NUL"
KeyEq == <<"W", "I", "N", "E", "P", "R", "E", "F", "I", "X", "=">>
Prefix1 == <<"/", "o", "p", "t", "/", "p", "r", "e", "f", "i", "x", "_", "d", "s", "r", "-", "1">>
Prefix2 == <<"/", "o", "p", "t", "/", "p", "r", "e", "f", "i", "x", "_", "d", "s", "r", "-", "2">>
HomeEntry == <<"H", "O", "M", "E", "=", "/", "r", "o", "o", "t">>

\* /proc/<pid>/cmdline
CmdText(c) ==
    IF c = "game" THEN <<"Z", ":", "/", "g", "/">> \o PROC_SUBSTR \o <<NUL>>
    ELSE <<"/", "b", "i", "n", "/", "b", "a", "s", "h", NUL>>

\* /proc/<pid>/environ
EnvBytes(e) ==
    IF e = "prefix1" THEN HomeEntry \o <<NUL>> \o KeyEq \o Prefix1 \o <<NUL>>
    ELSE IF e = "prefix10" THEN KeyEq \o Prefix1 \o <<"0", NUL>> \o HomeEntry \o <<NUL>>
    ELSE IF e = "prefix2" THEN KeyEq \o Prefix2 \o <<NUL>>
    ELSE <<>>

\* /proc/<pid>/maps, as a listing
MapsOf(m) ==
    IF m = "exact" THEN <<3, 1, 2>>
    ELSE IF m = "lower" THEN <<3, 4>>
    ELSE <<3>>

EnvKinds == {"prefix1", "prefix10", "prefix2", "unreadable"}
MapsKinds == {"exact", "lower", "none", "unreadable"}

\* a file is "unreadable" when opening it fails: no permission, or the
\* process has exited since /proc was listed (then none of its files opens)
Profiles ==
    [cmd : {"game"}, env : EnvKinds, maps : MapsKinds]
        \cup {[cmd |-> "other", env |-> "prefix1", maps |-> "exact"],
              [cmd |-> "unreadable", env |-> "unreadable", maps |-> "unreadable"]}

\* instance_config.resolve_instance(instance).wineprefix
InstancePrefix(i) == IF i = "dsr-1" THEN Prefix1 ELSE <<>>
Instances == {"none", "dsr-1", "dsr-x"}

NoPrefix == [some |-> FALSE, val |-> <<>>]
SomePrefix(v) == [some |-> TRUE, val |-> v]

(***************************************************************************)
(* memory_tools.py: finding the process                                    *)
(***************************************************************************)
read_proc_environ(ps, gn, p) ==
    IF p \in gn \/ ps[p].env = "unreadable" THEN <<>> ELSE EnvBytes(ps[p].env)

\* _env_has_wineprefix looking for the key alone
env_has_wineprefix_anyvalue(ps, gn, p, wp) ==
    IF wp = <<>> THEN FALSE
    ELSE LET env == read_proc_environ(ps, gn, p)
         IN IF env = <<>> THEN FALSE ELSE Contains(KeyEq, env)

\* _env_has_wineprefix letting a process through when its environ cannot be read
env_has_wineprefix_lenient(ps, gn, p, wp) ==
    IF wp = <<>> THEN FALSE
    ELSE LET env == read_proc_environ(ps, gn, p)
         IN IF env = <<>> THEN TRUE ELSE Contains(KeyEq \o wp, env)

env_has_wineprefix(ps, gn, p, wp) ==
    IF wp = <<>> THEN FALSE
    ELSE LET env == read_proc_environ(ps, gn, p)
         IN IF env = <<>> THEN FALSE ELSE Contains(KeyEq \o wp, env)

\* the body of find_game_pid's loop with the maps test comparing case
scan_entry_casesensitive(d, ps, gn, substr, needle, wp) ==
    IF ~IsDigitStr(d) THEN "continue"
    ELSE LET p == ParseInt(d)
         IN IF p \in gn \/ ps[p].cmd = "unreadable" THEN "except"
            ELSE IF ~Contains(substr, CmdText(ps[p].cmd)) THEN "continue"
            ELSE IF wp.some /\ ~env_has_wineprefix(ps, gn, p, wp.val) THEN "continue"
            ELSE IF ps[p].maps = "unreadable" THEN "except"
            ELSE IF \E i \in 1..Len(MapsOf(ps[p].maps)) :
                       Contains(needle, FileLines(MapsOf(ps[p].maps))[i])
                 THEN "return"
                 ELSE "next"

\* the body of find_game_pid's loop for the entry d of /proc:
\*   "continue"  a continue statement was taken
\*   "except"    an open() raised and the except clause passed
\*   "next"      the maps were read and no line holds the needle
\*   "return"    the pid is returned
scan_entry(d, ps, gn, substr, needle, wp) ==
    IF ~IsDigitStr(d) THEN "continue"
    ELSE LET p == ParseInt(d)
         IN IF p \in gn \/ ps[p].cmd = "unreadable" THEN "except"
            ELSE IF ~Contains(substr, CmdText(ps[p].cmd)) THEN "continue"
            ELSE IF wp.some /\ ~env_has_wineprefix(ps, gn, p, wp.val) THEN "continue"
            ELSE IF ps[p].maps = "unreadable" THEN "except"
            ELSE IF \E i \in 1..Len(MapsOf(ps[p].maps)) :
                       Contains(Lower(needle), Lower(FileLines(MapsOf(ps[p].maps))[i]))
                 THEN "return"
                 ELSE "next"

SetupNone == [ok |-> FALSE, pid |-> 0, base |-> 0, ptrloc |-> 0, err |-> "none"]
SetupRaise(kind) == [ok |-> FALSE, pid |-> 0, base |-> 0, ptrloc |-> 0, err |-> kind]
SetupOk(p, b) == [ok |-> TRUE, pid |-> p, base |-> b, ptrloc |-> b + BASEX_PTRLOC_RVA, err |-> "none"]

\* find_game_pid(cmd_substr, maps_needle, wineprefix) from entry i of the
\* listing on: the pid returned, 0 when the loop ends and RuntimeError is raised
RECURSIVE find_game_pid(_, _, _, _, _)
find_game_pid(dir, i, ps, gn, wp) ==
    IF i > Len(dir) THEN 0
    ELSE IF scan_entry(dir[i], ps, gn, PROC_SUBSTR, PROC_SUBSTR, wp) = "return"
    THEN ParseInt(dir[i])
    ELSE find_game_pid(dir, i + 1, ps, gn, wp)

SetupRun(res, wp, cs, found, gn) ==
    [res |-> res, wp |-> wp, calls |-> cs, found |-> found, gone |-> gn]

\* setup_memory_reader returning pid 0 and base 0 where discovery raised
setup_memory_reader_default(inst, dir, ps, gn, exits) ==
    LET pfx == InstancePrefix(inst)
        wp == IF inst = "none" THEN NoPrefix ELSE SomePrefix(pfx)
        p == find_game_pid(dir, 1, ps, gn, wp)
        r == IF p = 0 \/ p \in gn THEN MbRaise("none")
             ELSE module_base(FileLines(MapsOf(ps[p].maps)), PROC_SUBSTR)
    IN IF r.ok THEN SetupRun(SetupOk(p, r.val), wp, <<"find_game_pid", "module_base">>, p, gn)
       ELSE SetupRun(SetupOk(0, 0), wp, <<"find_game_pid", "module_base">>, 0, gn)

\* setup_memory_reader calling find_game_pid a second time when it raised
setup_memory_reader_retry(inst, dir, ps, gn, exits) ==
    LET pfx == InstancePrefix(inst)
        wp == IF inst = "none" THEN NoPrefix ELSE SomePrefix(pfx)
        p == find_game_pid(dir, 1, ps, gn, wp)
        r == IF p = 0 \/ p \in gn THEN MbRaise("ModuleNotFound")
             ELSE module_base(FileLines(MapsOf(ps[p].maps)), PROC_SUBSTR)
    IN IF inst # "none" /\ pfx = <<>>
       THEN SetupRun(SetupRaise("MissingWineprefix"), NoPrefix, <<>>, 0, gn)
       ELSE IF p = 0
       THEN SetupRun(SetupRaise("ProcessNotFound"), wp, <<"find_game_pid", "find_game_pid">>, 0, gn)
       ELSE IF r.ok
       THEN SetupRun(SetupOk(p, r.val), wp, <<"find_game_pid", "module_base">>, p, gn)
       ELSE SetupRun(SetupRaise(r.err), wp, <<"find_game_pid", "module_base">>, p, gn)

\* setup_memory_reader(instance) over the process table; exits: the process
\* found exits before module_base opens its maps.  The result carries what
\* was returned or raised, the wineprefix looked for, the discovery functions
\* called, the pid find_game_pid returned and the processes gone by the end.
setup_memory_reader(inst, dir, ps, gn, exits) ==
    LET pfx == InstancePrefix(inst)
        wp == IF inst = "none" THEN NoPrefix ELSE SomePrefix(pfx)
        p == find_game_pid(dir, 1, ps, gn, wp)
        gn2 == IF exits /\ p # 0 THEN gn \cup {p} ELSE gn
    IN IF inst # "none" /\ pfx = <<>>
       THEN SetupRun(SetupRaise("MissingWineprefix"), NoPrefix, <<>>, 0, gn)
       ELSE IF p = 0
       THEN SetupRun(SetupRaise("ProcessNotFound"), wp, <<"find_game_pid">>, 0, gn)
       ELSE IF p \in gn2
       THEN SetupRun(SetupRaise("OSError"), wp, <<"find_game_pid", "module_base">>, p, gn2)
       ELSE LET r == module_base(FileLines(MapsOf(ps[p].maps)), PROC_SUBSTR)
            IN IF r.ok
               THEN SetupRun(SetupOk(p, r.val), wp, <<"find_game_pid", "module_base">>, p, gn2)
               ELSE SetupRun(SetupRaise(r.err), wp, <<"find_game_pid", "module_base">>, p, gn2)

(***************************************************************************)
(* memory_test.py                                                          *)
(***************************************************************************)
\* values setup_memory_reader returns (memory_tools.py) and values main
\* unpacks from it (memory_test.py)
SrcArity == 3
MainArity == 5

NoLocals ==
    [pid |-> 0, base |-> 0, basex_ptrloc |-> 0, baseb_ptrloc |-> 0, boss_static_base |-> 0,
     basex |-> 0, struct_base |-> 0, game_data_struct_base |-> 0, boss_root_ptr |-> 0]

\* pid, base, basex_ptrloc, baseb_ptrloc, boss_static_base = setup_memory_reader(...)
\* for a setup_memory_reader that returns all five
Unpack5(r) ==
    [NoLocals EXCEPT !.pid = r.pid, !.base = r.base, !.basex_ptrloc = r.ptrloc,
                     !.baseb_ptrloc = r.base + BASEB_PTRLOC_RVA,
                     !.boss_static_base = r.base + BOSS_BASE_PTRLOC_RVA]

\* open(f"/proc/{pid}/mem", "rb", buffering=0), counted twice
mem_open_twice(h) == h + 2

\* open(f"/proc/{pid}/mem", "rb", buffering=0)
mem_open(h) == h + 1

\* leaving the with block without closing the file
mem_exit_leaking(h) == h

\* leaving the with block, by an exception too: the file is closed
mem_exit(h) == h - 1

\* read_pointer_chain(mem, root, offsets, type), hop h being the next
RECURSIVE read_pointer_chain(_, _, _, _, _, _)
read_pointer_chain(m, live, cur, offs, t, h) ==
    IF Len(offs) = 1
    THEN [read_typed(m, live, cur + offs[1], t) EXCEPT !.hop = h]
    ELSE LET r == u64(m, live, cur + offs[1])
         IN IF ~r.ok THEN [r EXCEPT !.hop = h]
            ELSE read_pointer_chain(m, live, r.val, Tail(offs), t, h + 1)

\* the mem.read calls of one read_pointer_chain
RECURSIVE ChainReads(_, _, _, _, _)
ChainReads(m, live, cur, offs, t) ==
    IF Len(offs) = 1 THEN TypedReads(m, live, cur + offs[1], t)
    ELSE LET r == u64(m, live, cur + offs[1])
         IN <<ReadRec(m, live, cur + offs[1], 8)>>
               \o (IF r.ok THEN ChainReads(m, live, r.val, Tail(offs), t) ELSE <<>>)

\* dt = 1.0 / POLL_HZ, in half periods of POLL_HZ
POLL_DT == 2

\* time.sleep(dt): the same interval after every turn
sleep_dt(now, turn) == POLL_DT

\* a pending SIGINT never raised in main
interrupt_due_never(sig) == FALSE

\* main installs no handler: a pending SIGINT raises KeyboardInterrupt before
\* main executes its next statement
interrupt_due(sig) == sig

\* the reading lines of the loop body, in order; 42: print and sleep
ReadLines == <<28, 29, 30, 31, 34, 35, 38, 39>>
LoopEnd == 42
NextLine(l) ==
    IF l = ReadLines[Len(ReadLines)] THEN LoopEnd
    ELSE ReadLines[(CHOOSE i \in 1..Len(ReadLines) : ReadLines[i] = l) + 1]

\* the values a turn prints, and the lines that read each of them
Walks == {"hp", "hpmax", "deaths", "boss"}
WalkOf(l) ==
    IF l \in {28, 29, 30} THEN "hp"
    ELSE IF l = 31 THEN "hpmax"
    ELSE IF l \in {34, 35} THEN "deaths"
    ELSE "boss"
ValueLines == {30, 31, 35, 39}

\* the read at line l of memory_test.py
main_line(l, m, live, mn) ==
    CASE l = 28 -> read_typed(m, live, mn.basex_ptrloc, "u64")
      [] l = 29 -> read_typed_offset(m, live, mn.basex, OFF_STRUCT_PTR, "u64")
      [] l = 30 -> read_typed_offset(m, live, mn.struct_base, OFF_HP, "i32")
      [] l = 31 -> read_typed_offset(m, live, mn.struct_base, OFF_HPMAX, "i32")
      [] l = 34 -> read_typed(m, live, mn.baseb_ptrloc, "u64")
      [] l = 35 -> read_typed_offset(m, live, mn.game_data_struct_base, OFF_DEATH_NUM, "i32")
      [] l = 38 -> read_typed(m, live, mn.boss_static_base, "u64")
      [] OTHER -> read_pointer_chain(m, live, mn.boss_root_ptr, ASYLUM_DEMON_OFFSETS, "i32", 1)

\* the mem.read calls of line l
main_line_reads(l, m, live, mn) ==
    CASE l = 28 -> TypedReads(m, live, mn.basex_ptrloc, "u64")
      [] l = 29 -> TypedReads(m, live, mn.basex + OFF_STRUCT_PTR, "u64")
      [] l = 30 -> TypedReads(m, live, mn.struct_base + OFF_HP, "i32")
      [] l = 31 -> TypedReads(m, live, mn.struct_base + OFF_HPMAX, "i32")
      [] l = 34 -> TypedReads(m, live, mn.baseb_ptrloc, "u64")
      [] l = 35 -> TypedReads(m, live, mn.game_data_struct_base + OFF_DEATH_NUM, "i32")
      [] l = 38 -> TypedReads(m, live, mn.boss_static_base, "u64")
      [] OTHER -> ChainReads(m, live, mn.boss_root_ptr, ASYLUM_DEMON_OFFSETS, "i32")

\* the assignment of line l
main_assign(l, mn, v) ==
    CASE l = 28 -> [mn EXCEPT !.basex = v]
      [] l = 29 -> [mn EXCEPT !.struct_base = v]
      [] l = 34 -> [mn EXCEPT !.game_data_struct_base = v]
      [] l = 38 -> [mn EXCEPT !.boss_root_ptr = v]
      [] OTHER -> mn

(***************************************************************************)
(* save_manager.py.  A scenario is a folder under the scenarios directory; *)
(* it is "absent", there without a save file ("nofile"), or holds one.     *)
(***************************************************************************)
ScenarioNames == {"X", "Y"}
SaveContents == {"a", "b"}
ScenarioStates == {"absent", "nofile"} \cup SaveContents

HoldsSave(st) == st \in SaveContents

SaveRun(ok, err, act, sc, bk) == [ok |-> ok, err |-> err, active |-> act, scen |-> sc, backups |-> bk]

\* dump_current without the test of the destination
dump_current_clobbering(act, sc, bk, name, overwrite) ==
    IF act = "none" THEN SaveRun(FALSE, "NoCurrentSave", act, sc, bk)
    ELSE SaveRun(TRUE, "none", act, [sc EXCEPT ![name] = act], bk)

\* dump_current(paths, scenarios_dir, name, overwrite)
dump_current(act, sc, bk, name, overwrite) ==
    IF act = "none" THEN SaveRun(FALSE, "NoCurrentSave", act, sc, bk)
    ELSE IF HoldsSave(sc[name]) /\ ~overwrite
    THEN SaveRun(FALSE, "DestinationExists", act, sc, bk)
    ELSE SaveRun(TRUE, "none", act, [sc EXCEPT ![name] = act], bk)

\* backup_current_save(paths, backup_root): the backups afterwards
backup_current_save(act, bk) == IF act = "none" THEN bk ELSE Append(bk, act)

\* load_scenario(paths, scenarios_dir, scenario, backup, wipe_sl2)
load_scenario(act, sc, bk, name, backup, wipe) ==
    IF sc[name] = "absent" THEN SaveRun(FALSE, "UnknownScenario", act, sc, bk)
    ELSE IF sc[name] = "nofile" THEN SaveRun(FALSE, "ScenarioMissingSave", act, sc, bk)
    ELSE SaveRun(TRUE, "none", sc[name], sc,
                 IF backup THEN backup_current_save(act, bk) ELSE bk)

NoCmd == [cmd |-> "none", name |-> "none", flag |-> FALSE, ok |-> FALSE, err |-> "none"]

(***************************************************************************)
(* run_instance.py.  An entry of the config's "instances" object is taken  *)
(* by what main tests of it: whether it is there, whether it is an object, *)
(* the Python type of its three required keys, and what is found at its    *)
(* wineprefix path.                                                        *)
(***************************************************************************)
InstanceNames == {"dsr-1", "dsr-2"}

EntryGood ==
    [present |-> TRUE, obj |-> TRUE, display_num |-> "int", vnc_port |-> "int",
     wineprefix |-> "str", prefix |-> "dir"]

EntryAbsent == [EntryGood EXCEPT !.present = FALSE]

Entries ==
    { EntryGood, EntryAbsent,
      [EntryGood EXCEPT !.obj = FALSE],
      [EntryGood EXCEPT !.display_num = "missing"],
      [EntryGood EXCEPT !.vnc_port = "str"],
      [EntryGood EXCEPT !.wineprefix = "missing"],
      [EntryGood EXCEPT !.prefix = "file"],
      [EntryGood EXCEPT !.prefix = "absent"],
      [EntryGood EXCEPT !.prefix = "notemplate"] }

\* _require(d, key, typ)
_require(d, key, typ) ==
    IF d[key] = "missing" THEN "MissingKey"
    ELSE IF d[key] # typ THEN "WrongType"
    ELSE "ok"

\* _ensure_prefix(prefix): "absent" is cloned from the template
_ensure_prefix(prefix) ==
    IF prefix = "file" THEN "PrefixNotDir"
    ELSE IF prefix = "notemplate" THEN "TemplateNotFound"
    ELSE "ok"

\* _prepare_env(name, inst)
_prepare_env(inst) ==
    IF _require(inst, "display_num", "int") # "ok" THEN _require(inst, "display_num", "int")
    ELSE IF _require(inst, "vnc_port", "int") # "ok" THEN _require(inst, "vnc_port", "int")
    ELSE IF _require(inst, "wineprefix", "str") # "ok" THEN _require(inst, "wineprefix", "str")
    ELSE _ensure_prefix(inst.prefix)

NoArgs == [all |-> FALSE, items |-> <<>>]

SortedPresent(cfg) ==
    (IF cfg["dsr-1"].present THEN <<"dsr-1">> ELSE <<>>)
        \o (IF cfg["dsr-2"].present THEN <<"dsr-2">> ELSE <<>>)

\* _resolve_selected_instances(args, all_names)
_resolve_selected_instances(args, cfg) ==
    IF args.all THEN SortedPresent(cfg) ELSE args.items

\* main, lines 148-166: the error main dies of before the loop, or "ok"
main_validate(glob, args, cfg) ==
    IF glob # "ok" THEN glob
    ELSE IF ~args.all /\ args.items = <<>> THEN "NoSelection"
    ELSE IF _resolve_selected_instances(args, cfg) = <<>> THEN "NoSelection"
    ELSE IF \E k \in 1..Len(_resolve_selected_instances(args, cfg)) :
               ~cfg[_resolve_selected_instances(args, cfg)[k]].present
    THEN "UnknownInstance"
    ELSE "ok"

\* main, lines 172-175: the error main dies of for one entry, or "ok"
main_entry(inst) == IF ~inst.obj THEN "NotAnObject" ELSE _prepare_env(inst)

SeqSet(q) == {q[k] : k \in 1..Len(q)}

(***************************************************************************)
(* generate_config.py.  save_root is a directory or not; an entry of it is *)
(* a name and whether it is a directory.  No id is the empty name.         *)
(***************************************************************************)
ID_DIR_PREFIX_RE == DecDigits

IdNames == {<<"1", "2">>, <<"0", "7">>}
OtherNames == {<<"c", "f", "g">>, <<"1", "x">>}

DirEntry(name, isdir) == [name |-> name, isdir |-> isdir]

\* entries a save root may hold before the game has run
RootEntries ==
    {DirEntry(<<"1", "2">>, TRUE), DirEntry(<<"0", "7">>, FALSE),
     DirEntry(<<"c", "f", "g">>, TRUE), DirEntry(<<"1", "x">>, TRUE)}

NoRoot == [isdir |-> FALSE, entries |-> {}]

\* a < b or a = b as Python compares strings of digits
RECURSIVE StrLeq(_, _)
StrLeq(a, b) ==
    IF a = <<>> THEN TRUE
    ELSE IF b = <<>> THEN FALSE
    ELSE IF a[1] # b[1] THEN IndexOf(a[1], DecDigits) < IndexOf(b[1], DecDigits)
    ELSE StrLeq(Tail(a), Tail(b))

NumericIds(rt) ==
    {e.name : e \in {x \in rt.entries :
                        /\ x.isdir /\ x.name # <<>>
                        /\ InSeq(x.name[1], ID_DIR_PREFIX_RE)
                        /\ IsDigitStr(x.name)}}

\* _find_numeric_id_dir(save_root)
_find_numeric_id_dir(rt) ==
    IF ~rt.isdir THEN <<>>
    ELSE IF NumericIds(rt) = {} THEN <<>>
    ELSE CHOOSE m \in NumericIds(rt) : \A o \in NumericIds(rt) : StrLeq(m, o)

\* the finally block without the kill
finally_stop_terminate_only(proc, stubborn) == IF proc = "running" /\ ~stubborn THEN "terminated" ELSE proc

\* _init_save_folder_for_instance, lines 114-129: the process afterwards
finally_stop(proc, stubborn) ==
    IF proc # "running" THEN proc
    ELSE IF stubborn THEN "killed"
    ELSE "terminated"

(***************************************************************************)
(* input_test.py: the menu.  Times are in hundredths of a second.          *)
(***************************************************************************)
MenuAction(name, keys, mouse) == [name |-> name, keys |-> keys, mouse |-> mouse]

\* _legacy_menu_actions()
_legacy_menu_actions ==
    << MenuAction("w", <<"w">>, "none"),
       MenuAction("a", <<"a">>, "none"),
       MenuAction("s", <<"s">>, "none"),
       MenuAction("d", <<"d">>, "none"),
       MenuAction("attack", <<>>, "left_click"),
       MenuAction("backstep", <<"space">>, "none"),
       MenuAction("heal", <<"r">>, "none"),
       MenuAction("strong-attack", <<"Shift_L">>, "left_click"),
       MenuAction("front-roll", <<"w", "space">>, "none"),
       MenuAction("left-roll", <<"a", "space">>, "none"),
       MenuAction("back-roll", <<"s", "space">>, "none"),
       MenuAction("right-roll", <<"d", "space">>, "none") >>

\* pending_deadline = time.time() + 0.35
PendingWindow == 35
\* stdscr.timeout(50)
PollTimeout == 5

\* the keys a user types: digits, q, and a key the menu ignores
MenuKeys == {"0", "1", "2", "7", "q", "x"}

NoKey == "-1"

NoRes == [kind |-> "none", late |-> FALSE, acts |-> <<>>]

\* int(d)
DigitVal(d) == IndexOf(d, DecDigits) - 1

MenuStep(pend, acts, quit) == [pending |-> pend, acts |-> acts, quit |-> quit]

\* _run, lines 161-250: what one value of ch does, given pending_1
menu_key(pend, ch) ==
    IF ch = NoKey THEN MenuStep(pend, <<>>, FALSE)
    ELSE IF ch = "q" THEN MenuStep(pend, <<>>, TRUE)
    ELSE IF ~InSeq(ch, DecDigits) THEN MenuStep(pend, <<>>, FALSE)
    ELSE IF pend
    THEN IF ch \in {"0", "1", "2"} THEN MenuStep(FALSE, <<10 + DigitVal(ch)>>, FALSE)
         ELSE IF ch = "1" THEN MenuStep(TRUE, <<1>>, FALSE)
         ELSE IF ch = "0" THEN MenuStep(FALSE, <<1>>, FALSE)
         ELSE IF 1 <= DigitVal(ch) /\ DigitVal(ch) <= Len(_legacy_menu_actions)
         THEN MenuStep(FALSE, <<1, DigitVal(ch)>>, FALSE)
         ELSE MenuStep(FALSE, <<1>>, FALSE)
    ELSE IF ch = "1" /\ Len(_legacy_menu_actions) >= 10 THEN MenuStep(TRUE, <<>>, FALSE)
    ELSE IF DigitVal(ch) = 0 THEN MenuStep(FALSE, <<>>, FALSE)
    ELSE IF ~(1 <= DigitVal(ch) /\ DigitVal(ch) <= Len(_legacy_menu_actions))
    THEN MenuStep(FALSE, <<>>, FALSE)
    ELSE MenuStep(FALSE, <<DigitVal(ch)>>, FALSE)

(***************************************************************************)
(* x11_input.py and _execute_action.  A call is the sequence of input      *)
(* operations it makes; an operation of the try block that raises is       *)
(* followed by the finally block, any other that raises ends the call.     *)
(***************************************************************************)
InputOp(o, inp, ph) == [op |-> o, inp |-> inp, phase |-> ph]

Reverse(q) == [k \in 1..Len(q) |-> q[Len(q) + 1 - k]]

IsKeyName(k) == k # "" /\ k # " "

Presses(keys, phase) == [k \in 1..Len(keys) |-> InputOp("press", keys[k], phase)]
Releases(keys, phase) == [k \in 1..Len(keys) |-> InputOp("release", Reverse(keys)[k], phase)]

\* X11Input.tap_combo(keys, hold_s)
tap_combo(keys, hold_s) ==
    LET keys_list == SelectSeq(keys, IsKeyName)
    IN IF keys_list = <<>> THEN <<>>
       ELSE Presses(keys_list, "plain")
              \o (IF hold_s > 0 THEN <<InputOp("sleep", "none", "plain")>> ELSE <<>>)
              \o Releases(keys_list, "plain")

\* hold_left / hold_right, time.sleep, release_left / release_right
ClickOps(button) ==
    <<InputOp("press", button, "try"), InputOp("sleep", "none", "try"),
      InputOp("release", button, "try")>>

\* _execute_action(x11, a, hold_s)
_execute_action(a, hold_s) ==
    IF a.mouse = "right_click"
    THEN Presses(a.keys, "pre") \o ClickOps("button3") \o Releases(a.keys, "finally")
    ELSE IF a.mouse = "left_click"
    THEN Presses(a.keys, "pre") \o ClickOps("button1") \o Releases(a.keys, "finally")
    ELSE tap_combo(a.keys, hold_s)

HoldValues == {0, 25}

TapKeyLists == {<<"w">>, <<"w", " ", "space">>, <<"">>, <<"Shift_L", "a", "space">>}

NoCall == [fn |-> "none", keys |-> <<>>, mouse |-> "none", hold_s |-> 0]

\* where a raising operation at index k of ops leaves the call
AfterRaise(ops, k) ==
    IF ops[k].phase = "try" /\ \E j \in k..Len(ops) : ops[j].phase = "finally"
    THEN CHOOSE j \in k..Len(ops) :
            ops[j].phase = "finally" /\ \A h \in k..(j - 1) : ops[h].phase # "finally"
    ELSE Len(ops) + 1

(***************************************************************************)
(* Frames and idle values: a specification leaves the variables of the     *)
(* others alone                                                            *)
(***************************************************************************)
MemFrame == UNCHANGED <<mapsvars, findvars, pollvars, toolvars>>

MemIdle ==
    /\ pc = "idle" /\ op = "none" /\ root = 0 /\ offsets = <<>> /\ ftype = "u64"
    /\ reqlen = 0 /\ current = 0 /\ hop = 0 /\ reads = <<>> /\ outcome = NoOutcome
    /\ buf = <<>>

MapsFrame == UNCHANGED <<memvars, findvars, pollvars, toolvars>>
FindFrame == UNCHANGED <<memvars, mapsvars, pollvars, toolvars>>
PollFrame ==
    UNCHANGED <<pc, op, root, offsets, ftype, reqlen, current, hop, reads, outcome, buf,
                mapsvars, fpc, idx, visited, toolvars>>

MapsIdle == listing = <<>> /\ mbpc = "idle" /\ mbres = MbNone

MemRest == mem = [c \in CellAddrs |-> Val450] /\ alive = TRUE /\ MemIdle

SaveIdle ==
    /\ active = "none" /\ scen = [n \in ScenarioNames |-> "absent"] /\ backups = <<>>
    /\ scmd = NoCmd /\ sbefore = [active |-> "none", scen |-> [n \in ScenarioNames |-> "absent"]]
    /\ ncmds = 0

RunIdle ==
    /\ rglobal = "ok" /\ rcfg = [n \in InstanceNames |-> EntryAbsent] /\ rargs = NoArgs
    /\ rsel = <<>> /\ rpc = "start" /\ ri = 0 /\ rstarted = {} /\ rprocs = <<>>
    /\ rchild = <<>> /\ rterm = {} /\ rkilled = {}
    /\ rsig = FALSE /\ rexit = "running" /\ rcode = 0

GenIdle ==
    /\ groot = NoRoot /\ grungame = TRUE /\ gtimeout = 0 /\ gstub = FALSE /\ gpc = "start"
    /\ gnow = 0 /\ gdeadline = 0 /\ gproc = "none" /\ gterm = FALSE /\ guser = <<>>
    /\ gres = "none" /\ gseen = {}

MenuIdle ==
    /\ pending_1 = FALSE /\ pel = 0 /\ kbuf = <<>> /\ mpc = "top" /\ wleft = 0
    /\ ran = <<>> /\ nkeys = 0 /\ lastres = NoRes

InputIdle ==
    /\ xcall = NoCall /\ xops = <<>> /\ xi = 1 /\ held = {} /\ xevents = <<>>
    /\ xraised = FALSE /\ xpc = "idle"

ToolsIdle == SaveIdle /\ RunIdle /\ GenIdle /\ MenuIdle /\ InputIdle

PollIdle ==
    /\ sess = "Idle" /\ arity = SrcArity /\ mline = 22 /\ tick = 0 /\ main = NoLocals
    /\ outs = <<>> /\ treads = <<>> /\ handles = 0 /\ opened = 0 /\ serr = NoOutcome
    /\ calls = <<>> /\ badticks = 0
    /\ sigint = FALSE /\ clock = 0 /\ started = <<>>

FindIdle ==
    /\ procdir = <<>> /\ procs = <<>> /\ gone = {} /\ instance = "none"
    /\ fpc = "start" /\ idx = 0 /\ wineprefix = NoPrefix /\ pid = 0
    /\ visited = <<>> /\ setup = SetupNone

CoreRest == MemRest /\ MapsIdle /\ FindIdle /\ PollIdle

SaveFrame == UNCHANGED <<corevars, runvars, genvars, menuvars, inputvars>>
RunFrame == UNCHANGED <<corevars, savevars, genvars, menuvars, inputvars>>
GenFrame == UNCHANGED <<corevars, savevars, runvars, menuvars, inputvars>>
MenuFrame == UNCHANGED <<corevars, savevars, runvars, genvars, inputvars>>
InputFrame == UNCHANGED <<corevars, savevars, runvars, genvars, menuvars>>

(***************************************************************************)
(* SpecMem: one request against the memory                                 *)
(***************************************************************************)
InitMem ==
    /\ mem \in Memories
    /\ alive = TRUE
    /\ MemIdle
    /\ MapsIdle
    /\ FindIdle
    /\ PollIdle
    /\ ToolsIdle

\* the target process exits while a request is pending
ProcessExit ==
    /\ alive /\ pc # "done"
    /\ alive' = FALSE
    /\ UNCHANGED <<mem, buf, pc, op, root, offsets, ftype, reqlen, current, hop, reads, outcome>>
    /\ MemFrame

ReadExactCall ==
    /\ pc = "idle"
    /\ \E addr \in ReadAddrs, n \in 0..MaxRead :
          /\ root' = addr
          /\ reqlen' = n
          /\ reads' = <<ReadRec(mem, alive, addr, n)>>
          /\ outcome' = read_exact(mem, alive, addr, n)
    /\ op' = "read_exact"
    /\ pc' = "done"
    /\ UNCHANGED <<mem, buf, alive, offsets, ftype, current, hop>>
    /\ MemFrame

TypedOffsetCall ==
    /\ pc = "idle"
    /\ \E base \in Bases, off \in Offsets, t \in ConfigTags :
          /\ root' = base
          /\ offsets' = <<off>>
          /\ ftype' = t
          /\ reads' = TypedReads(mem, alive, base + off, t)
          /\ outcome' = read_typed_offset(mem, alive, base, off, t)
    /\ op' = "typed"
    /\ pc' = "done"
    /\ UNCHANGED <<mem, buf, alive, reqlen, current, hop>>
    /\ MemFrame

\* struct.unpack of u64 / i32 on a byte slice
DecodeCall ==
    /\ pc = "idle"
    /\ \E t \in TypeTags, b \in Slices :
          /\ ftype' = t
          /\ buf' = b
          /\ outcome' = struct_unpack(t, b, 0)
    /\ op' = "decode"
    /\ pc' = "done"
    /\ UNCHANGED <<mem, alive, root, offsets, reqlen, current, hop, reads>>
    /\ MemFrame

\* memory_test.main: struct_base, then hp, from the baseX pointer
HealthRead ==
    /\ pc = "idle"
    /\ \E basex \in Bases \cup {450} :
          LET sb == read_typed_offset(mem, alive, basex, OFF_STRUCT_PTR, "u64")
              r1 == TypedReads(mem, alive, basex + OFF_STRUCT_PTR, "u64")
          IN /\ root' = basex
             /\ IF ~sb.ok
                THEN /\ outcome' = sb
                     /\ reads' = r1
                ELSE /\ outcome' = read_typed_offset(mem, alive, sb.val, OFF_HP, "i32")
                     /\ reads' = r1 \o TypedReads(mem, alive, sb.val + OFF_HP, "i32")
    /\ offsets' = <<OFF_STRUCT_PTR, OFF_HP>>
    /\ ftype' = "i32"
    /\ op' = "health"
    /\ pc' = "done"
    /\ UNCHANGED <<mem, buf, alive, reqlen, current, hop>>
    /\ MemFrame

\* memory_test.main lines 29-30 for a field whose type tag, taken from the
\* configuration, is one the registry lacks
FieldRead ==
    /\ pc = "idle"
    /\ \E basex \in Bases, t \in ConfigTags \ TypeTags :
          LET sb == read_typed_offset(mem, alive, basex, OFF_STRUCT_PTR, "u64")
              r1 == TypedReads(mem, alive, basex + OFF_STRUCT_PTR, "u64")
          IN /\ root' = basex
             /\ ftype' = t
             /\ IF ~sb.ok
                THEN /\ outcome' = sb
                     /\ reads' = r1
                ELSE /\ outcome' = read_typed_offset(mem, alive, sb.val, OFF_HP, t)
                     /\ reads' = r1 \o TypedReads(mem, alive, sb.val + OFF_HP, t)
    /\ offsets' = <<OFF_STRUCT_PTR, OFF_HP>>
    /\ op' = "field"
    /\ pc' = "done"
    /\ UNCHANGED <<mem, buf, alive, reqlen, current, hop>>
    /\ MemFrame

\* read_pointer_chain(mem, root, offsets, type)
WalkStart ==
    /\ pc = "idle"
    /\ \E r \in Bases, offs \in Chains, t \in TypeTags :
          /\ root' = r
          /\ offsets' = offs
          /\ ftype' = t
          /\ current' = r
    /\ hop' = 1
    /\ op' = "chain"
    /\ pc' = "walk"
    /\ UNCHANGED <<mem, buf, alive, reqlen, reads, outcome>>
    /\ MemFrame

WalkHop ==
    /\ pc = "walk" /\ hop < Len(offsets)
    /\ LET a == current + offsets[hop]
           r == u64(mem, alive, a)
       IN /\ reads' = Append(reads, ReadRec(mem, alive, a, 8))
          /\ IF r.ok
             THEN /\ current' = r.val
                  /\ hop' = hop + 1
                  /\ UNCHANGED <<pc, outcome>>
             ELSE /\ outcome' = [r EXCEPT !.hop = hop]
                  /\ pc' = "done"
                  /\ UNCHANGED <<current, hop>>
    /\ UNCHANGED <<mem, buf, alive, op, root, offsets, ftype, reqlen>>
    /\ MemFrame

WalkFinal ==
    /\ pc = "walk" /\ hop = Len(offsets)
    /\ LET a == current + offsets[hop]
           r == read_typed(mem, alive, a, ftype)
       IN /\ reads' = reads \o TypedReads(mem, alive, a, ftype)
          /\ outcome' = [r EXCEPT !.hop = hop]
    /\ pc' = "done"
    /\ UNCHANGED <<mem, buf, alive, op, root, offsets, ftype, reqlen, current, hop>>
    /\ MemFrame

NextMem ==
    \/ ProcessExit
    \/ ReadExactCall
    \/ TypedOffsetCall
    \/ DecodeCall
    \/ HealthRead
    \/ FieldRead
    \/ WalkStart
    \/ WalkHop
    \/ WalkFinal

SpecMem == InitMem /\ [][NextMem]_vars

(***************************************************************************)
(* SpecMaps: module_base over one listing                                  *)
(***************************************************************************)
InitMaps ==
    /\ listing \in Listings
    /\ mbpc = "idle"
    /\ mbres = MbNone
    /\ MemRest
    /\ FindIdle
    /\ PollIdle
    /\ ToolsIdle

ModuleBaseCall ==
    /\ mbpc = "idle"
    /\ mbres' = module_base(FileLines(listing), PROC_SUBSTR)
    /\ mbpc' = "done"
    /\ UNCHANGED listing
    /\ MapsFrame

NextMaps == ModuleBaseCall

SpecMaps == InitMaps /\ [][NextMaps]_vars

(***************************************************************************)
(* SpecFind: setup_memory_reader                                           *)
(***************************************************************************)
InitFind ==
    /\ procdir \in ProcDirs
    /\ procs \in [Pids -> Profiles]
    /\ gone = {}
    /\ instance \in Instances
    /\ fpc = "start" /\ idx = 0 /\ wineprefix = NoPrefix /\ pid = 0
    /\ visited = <<>> /\ setup = SetupNone
    /\ MemRest
    /\ MapsIdle
    /\ PollIdle
    /\ ToolsIdle

\* the process that was found exits before setup_memory_reader opens its maps
ProcExit ==
    /\ fpc = "found" /\ pid \notin gone
    /\ gone' = gone \cup {pid}
    /\ UNCHANGED <<procdir, procs, instance, fpc, idx, wineprefix, pid, visited, setup>>
    /\ FindFrame

\* setup_memory_reader up to the call of find_game_pid
SetupStart ==
    /\ fpc = "start"
    /\ IF instance = "none"
       THEN /\ wineprefix' = NoPrefix
            /\ fpc' = "scan" /\ idx' = 1
            /\ UNCHANGED setup
       ELSE IF InstancePrefix(instance) = <<>>
       THEN /\ setup' = SetupRaise("MissingWineprefix")
            /\ fpc' = "failed"
            /\ UNCHANGED <<wineprefix, idx>>
       ELSE /\ wineprefix' = SomePrefix(InstancePrefix(instance))
            /\ fpc' = "scan" /\ idx' = 1
            /\ UNCHANGED setup
    /\ UNCHANGED <<procdir, procs, gone, instance, pid, visited>>
    /\ FindFrame

\* what the files of process p hold, as far as the scan may look at them
ReadFails(p) ==
    \/ p \in gone
    \/ procs[p].cmd = "unreadable"
    \/ (wineprefix.some /\ procs[p].env = "unreadable")
    \/ procs[p].maps = "unreadable"

PassesFilters(p) ==
    /\ p \notin gone
    /\ procs[p].cmd # "unreadable"
    /\ Contains(PROC_SUBSTR, CmdText(procs[p].cmd))
    /\ wineprefix.some =>
          /\ procs[p].env # "unreadable"
          /\ Contains(KeyEq \o wineprefix.val, EnvBytes(procs[p].env))
    /\ procs[p].maps # "unreadable"
    /\ \E i \in 1..Len(MapsOf(procs[p].maps)) :
          Contains(Lower(PROC_SUBSTR), Lower(MapsLines[MapsOf(procs[p].maps)[i]].path))

Visit(d, res) ==
    [entry |-> d,
     res |-> res,
     failed |-> IsDigitStr(d) /\ ReadFails(ParseInt(d)),
     passes |-> IsDigitStr(d) /\ PassesFilters(ParseInt(d))]

\* find_game_pid: one turn of the loop over os.listdir("/proc")
ScanEntry ==
    /\ fpc = "scan" /\ idx <= Len(procdir)
    /\ LET d == procdir[idx]
           res == scan_entry(d, procs, gone, PROC_SUBSTR, PROC_SUBSTR, wineprefix)
       IN /\ visited' = Append(visited, Visit(d, res))
          /\ IF res = "return"
             THEN /\ pid' = ParseInt(d)
                  /\ fpc' = "found"
                  /\ UNCHANGED idx
             ELSE /\ idx' = idx + 1
                  /\ UNCHANGED <<pid, fpc>>
    /\ UNCHANGED <<procdir, procs, gone, instance, wineprefix, setup>>
    /\ FindFrame

\* find_game_pid: the loop is over, nothing was returned
ScanEnd ==
    /\ fpc = "scan" /\ idx > Len(procdir)
    /\ setup' = SetupRaise("ProcessNotFound")
    /\ fpc' = "failed"
    /\ UNCHANGED <<procdir, procs, gone, instance, idx, wineprefix, pid, visited>>
    /\ FindFrame

\* setup_memory_reader: module_base(pid, PROC_SUBSTR) and the pointer location
ResolveBase ==
    /\ fpc = "found"
    /\ IF pid \in gone
       THEN /\ setup' = SetupRaise("OSError")
            /\ fpc' = "failed"
       ELSE LET r == module_base(FileLines(MapsOf(procs[pid].maps)), PROC_SUBSTR)
            IN IF r.ok
               THEN /\ setup' = SetupOk(pid, r.val)
                    /\ fpc' = "done"
               ELSE /\ setup' = SetupRaise(r.err)
                    /\ fpc' = "failed"
    /\ UNCHANGED <<procdir, procs, gone, instance, idx, wineprefix, pid, visited>>
    /\ FindFrame

NextFind ==
    \/ ProcExit
    \/ SetupStart
    \/ ScanEntry
    \/ ScanEnd
    \/ ResolveBase

SpecFind == InitFind /\ [][NextFind]_vars

(***************************************************************************)
(* SpecPoll: memory_test.main, one polling session                         *)
(***************************************************************************)
\* what the processes of a polled machine hold: the game of the instance,
\* the game of another instance, a game whose maps spell the module in lower
\* case, and a process that is not the game
PollProfiles ==
    {[cmd |-> "game", env |-> "prefix1", maps |-> "exact"],
     [cmd |-> "game", env |-> "prefix2", maps |-> "exact"],
     [cmd |-> "game", env |-> "prefix1", maps |-> "lower"],
     [cmd |-> "other", env |-> "prefix1", maps |-> "exact"]}

\* main is started with --instance (required); it runs against the
\* setup_memory_reader of memory_tools.py, which returns three values, or
\* against one returning the five values main unpacks
InitPoll ==
    /\ mem \in PollMemories
    /\ alive = TRUE
    /\ MemIdle
    /\ MapsIdle
    /\ procdir \in ProcDirs
    /\ procs \in [Pids -> PollProfiles]
    /\ gone = {}
    /\ instance \in Instances \ {"none"}
    /\ fpc = "start" /\ idx = 0 /\ wineprefix = NoPrefix /\ pid = 0
    /\ visited = <<>> /\ setup = SetupNone
    /\ sess = "Idle" /\ arity \in {SrcArity, MainArity} /\ mline = 22 /\ tick = 0
    /\ main = NoLocals /\ outs = <<>> /\ treads = <<>> /\ handles = 0 /\ opened = 0
    /\ serr = NoOutcome /\ calls = <<>> /\ badticks = 0
    /\ sigint = FALSE /\ clock = 0 /\ started = <<>>
    /\ ToolsIdle

\* main(): parse_args
Start ==
    /\ sess = "Idle"
    /\ sess' = "Resolving"
    /\ mline' = 23
    /\ UNCHANGED <<mem, alive, procdir, procs, gone, instance, wineprefix, pid, setup>>
    /\ UNCHANGED <<arity, tick, main, outs, treads, handles, opened, serr, calls, badticks>>
    /\ UNCHANGED <<sigint, clock, started>>
    /\ PollFrame

\* line 23: setup_memory_reader(instance=args.instance) and the unpacking of
\* its result; an exception of either ends main
Resolve ==
    /\ sess = "Resolving" /\ mline = 23
    /\ ~interrupt_due(sigint)
    /\ \E exits \in BOOLEAN :
          LET s == setup_memory_reader(instance, procdir, procs, gone, exits)
          IN /\ setup' = s.res
             /\ wineprefix' = s.wp
             /\ calls' = calls \o s.calls
             /\ pid' = s.found
             /\ gone' = s.gone
             /\ alive' = (alive /\ s.found \notin s.gone)
             /\ IF ~s.res.ok
                THEN /\ sess' = "Failed"
                     /\ serr' = Raise(s.res.err, 0)
                     /\ mline' = 0
                     /\ UNCHANGED main
                ELSE IF arity # MainArity
                THEN /\ sess' = "Failed"
                     /\ serr' = Raise("ValueError", 0)
                     /\ mline' = 0
                     /\ UNCHANGED main
                ELSE /\ main' = Unpack5(s.res)
                     /\ mline' = 24
                     /\ UNCHANGED <<sess, serr>>
    /\ UNCHANGED <<mem, procdir, procs, instance>>
    /\ UNCHANGED <<arity, tick, outs, treads, handles, opened, badticks>>
    /\ UNCHANGED <<sigint, clock, started>>
    /\ PollFrame

\* line 24: with open(f"/proc/{pid}/mem", "rb", buffering=0) as mem
OpenMem ==
    /\ sess = "Resolving" /\ mline = 24
    /\ ~interrupt_due(sigint)
    /\ IF main.pid \in gone
       THEN /\ sess' = "Failed"
            /\ serr' = Raise("FileNotFoundError", 0)
            /\ mline' = 0
            /\ UNCHANGED <<handles, opened, started>>
       ELSE /\ handles' = mem_open(handles)
            /\ opened' = opened + 1
            /\ sess' = "Active"
            /\ mline' = ReadLines[1]
            /\ started' = <<clock>>
            /\ UNCHANGED serr
    /\ UNCHANGED <<mem, alive, procdir, procs, gone, instance, wineprefix, pid, setup>>
    /\ UNCHANGED <<arity, tick, main, outs, treads, calls, badticks, sigint, clock>>
    /\ PollFrame

\* lines 28-39: one reading statement of the loop body; an exception leaves
\* the with block, which closes the file, and ends main
ReadStep ==
    /\ sess = "Active" /\ mline # LoopEnd
    /\ ~interrupt_due(sigint)
    /\ LET r == main_line(mline, mem, alive, main)
           rd == main_line_reads(mline, mem, alive, main)
       IN /\ treads' = treads \o [i \in 1..Len(rd) |-> [line |-> mline, hop |-> i, rd |-> rd[i]]]
          /\ IF r.ok
             THEN /\ main' = main_assign(mline, main, r.val)
                  /\ outs' = IF mline \in ValueLines
                             THEN Append(outs, [walk |-> WalkOf(mline), out |-> r])
                             ELSE outs
                  /\ mline' = NextLine(mline)
                  /\ UNCHANGED <<sess, serr, handles, badticks>>
             ELSE /\ outs' = Append(outs, [walk |-> WalkOf(mline), out |-> r])
                  /\ sess' = "Failed"
                  /\ serr' = r
                  /\ handles' = mem_exit(handles)
                  /\ badticks' = badticks + 1
                  /\ mline' = 0
                  /\ UNCHANGED main
    /\ UNCHANGED <<mem, alive, procdir, procs, gone, instance, wineprefix, pid, setup>>
    /\ UNCHANGED <<arity, tick, opened, calls, sigint, clock, started>>
    /\ PollFrame

\* lines 42-43: print the values, time.sleep(dt), and back to the top; the
\* statements of the turn have taken between nothing and MaxLatency
TickEnd ==
    /\ sess = "Active" /\ mline = LoopEnd
    /\ ~interrupt_due(sigint)
    /\ tick < MaxTicks
    /\ tick' = tick + 1
    /\ \E lat \in 0..MaxLatency :
          /\ clock' = clock + lat + sleep_dt(clock + lat, tick + 1)
          /\ started' = Append(started, clock + lat + sleep_dt(clock + lat, tick + 1))
    /\ mline' = ReadLines[1]
    /\ outs' = <<>>
    /\ treads' = <<>>
    /\ badticks' = 0
    /\ UNCHANGED <<mem, alive, procdir, procs, gone, instance, wineprefix, pid, setup>>
    /\ UNCHANGED <<sess, arity, main, handles, opened, serr, calls, sigint>>
    /\ PollFrame

\* SIGINT arrives (Ctrl-C) while main runs
Signal ==
    /\ sess \in {"Resolving", "Active"}
    /\ ~sigint
    /\ sigint' = TRUE
    /\ UNCHANGED <<mem, alive, procdir, procs, gone, instance, wineprefix, pid, setup>>
    /\ UNCHANGED <<sess, arity, mline, tick, main, outs, treads, handles, opened, serr, calls,
                   badticks, clock, started>>
    /\ PollFrame

\* KeyboardInterrupt is raised in main: the exception leaves the with block
\* if it was entered, and ends main
Interrupt ==
    /\ sess \in {"Resolving", "Active"}
    /\ interrupt_due(sigint)
    /\ sigint' = FALSE
    /\ sess' = IF sess = "Active" THEN "Stopped" ELSE "Failed"
    /\ serr' = Raise("KeyboardInterrupt", 0)
    /\ handles' = IF sess = "Active" THEN mem_exit(handles) ELSE handles
    /\ mline' = 0
    /\ UNCHANGED <<mem, alive, procdir, procs, gone, instance, wineprefix, pid, setup>>
    /\ UNCHANGED <<arity, tick, main, outs, treads, opened, calls, badticks, clock, started>>
    /\ PollFrame

\* the game found exits while main is at the open or in the loop
TargetExit ==
    /\ sess \in {"Resolving", "Active"} /\ mline # 23
    /\ alive
    /\ alive' = FALSE
    /\ gone' = gone \cup {main.pid}
    /\ UNCHANGED <<mem, procdir, procs, instance, wineprefix, pid, setup>>
    /\ UNCHANGED pollvars
    /\ PollFrame

\* the game rewrites its static pointers while main is in the loop
TargetWrites ==
    /\ sess = "Active" /\ alive
    /\ mem' \in PollMemories \ {mem}
    /\ UNCHANGED <<alive, procdir, procs, gone, instance, wineprefix, pid, setup>>
    /\ UNCHANGED pollvars
    /\ PollFrame

NextPoll ==
    \/ Start
    \/ Resolve
    \/ OpenMem
    \/ ReadStep
    \/ TickEnd
    \/ Signal
    \/ Interrupt
    \/ TargetExit
    \/ TargetWrites

SpecPoll == InitPoll /\ [][NextPoll]_vars

(***************************************************************************)
(* SpecSave: save_manager.py run up to MaxCmds times over one save folder  *)
(* and one scenarios folder                                                *)
(***************************************************************************)
InitSave ==
    /\ active \in {"none"} \cup SaveContents
    /\ scen \in [ScenarioNames -> ScenarioStates]
    /\ backups = <<>>
    /\ scmd = NoCmd
    /\ sbefore = [active |-> active, scen |-> scen]
    /\ ncmds = 0
    /\ CoreRest
    /\ RunIdle
    /\ GenIdle
    /\ MenuIdle
    /\ InputIdle

SaveApply(cmd, name, flag, r) ==
    /\ sbefore' = [active |-> active, scen |-> scen]
    /\ active' = r.active
    /\ scen' = r.scen
    /\ backups' = r.backups
    /\ scmd' = [cmd |-> cmd, name |-> name, flag |-> flag, ok |-> r.ok, err |-> r.err]
    /\ ncmds' = ncmds + 1

\* main, subcommand dump
DumpCurrent ==
    /\ ncmds < MaxCmds
    /\ \E name \in ScenarioNames, overwrite \in BOOLEAN :
          SaveApply("dump", name, overwrite, dump_current(active, scen, backups, name, overwrite))
    /\ SaveFrame

\* main, subcommand load
LoadScenario ==
    /\ ncmds < MaxCmds
    /\ \E name \in ScenarioNames, backup \in BOOLEAN, wipe \in BOOLEAN :
          SaveApply("load", name, backup, load_scenario(active, scen, backups, name, backup, wipe))
    /\ SaveFrame

\* the game writes the active save
GameSaves ==
    /\ ncmds < MaxCmds
    /\ \E c \in SaveContents : c # active /\ active' = c
    /\ UNCHANGED <<scen, backups, scmd, sbefore, ncmds>>
    /\ SaveFrame

NextSave ==
    \/ DumpCurrent
    \/ LoadScenario
    \/ GameSaves

SpecSave == InitSave /\ [][NextSave]_vars

(***************************************************************************)
(* SpecRun: one run of run_instance.py.  SIGINT may reach main at any      *)
(* time; Python raises KeyboardInterrupt in place of main's next step.     *)
(***************************************************************************)
InitRun ==
    /\ rglobal \in {"ok", "MissingConfig", "BadJson", "NoInstancesObject", "MissingRunGame"}
    /\ rcfg \in [InstanceNames -> Entries]
    /\ rargs \in {[all |-> TRUE, items |-> <<>>]}
                   \cup {[all |-> FALSE, items |-> q] :
                            q \in UNION {[1..n -> InstanceNames] : n \in 0..MaxSel}}
    /\ rsel = <<>> /\ rpc = "start" /\ ri = 0 /\ rstarted = {} /\ rprocs = <<>>
    /\ rchild = [k \in 1..MaxSel |-> "none"] /\ rterm = {} /\ rkilled = {}
    /\ rsig = FALSE /\ rexit = "running" /\ rcode = 0
    /\ CoreRest
    /\ SaveIdle
    /\ GenIdle
    /\ MenuIdle
    /\ InputIdle

RunDie(err) ==
    /\ rexit' = "config_error"
    /\ rcode' = 1
    /\ rpc' = "exit"

\* lines 148-168
RunValidate ==
    /\ rexit = "running" /\ ~rsig /\ rpc = "start"
    /\ IF main_validate(rglobal, rargs, rcfg) # "ok"
       THEN RunDie(main_validate(rglobal, rargs, rcfg)) /\ UNCHANGED <<rsel, ri>>
       ELSE /\ rsel' = _resolve_selected_instances(rargs, rcfg)
            /\ rpc' = "loop" /\ ri' = 1
            /\ UNCHANGED <<rexit, rcode>>
    /\ UNCHANGED <<rglobal, rcfg, rargs, rstarted, rprocs, rchild, rterm, rkilled, rsig>>
    /\ RunFrame

\* lines 171-177: the checks of one entry, then Popen
RunLaunch ==
    /\ rexit = "running" /\ ~rsig /\ rpc = "loop" /\ ri <= Len(rsel)
    /\ IF main_entry(rcfg[rsel[ri]]) # "ok"
       THEN RunDie(main_entry(rcfg[rsel[ri]])) /\ UNCHANGED <<rstarted, rchild>>
       ELSE /\ rstarted' = rstarted \cup {ri}
            /\ rchild' = [rchild EXCEPT ![ri] = "running"]
            /\ rpc' = "spawned"
            /\ UNCHANGED <<rexit, rcode>>
    /\ UNCHANGED <<rglobal, rcfg, rargs, rsel, ri, rprocs, rterm, rkilled, rsig>>
    /\ RunFrame

\* line 178
RunAppend ==
    /\ rexit = "running" /\ ~rsig /\ rpc = "spawned"
    /\ rprocs' = Append(rprocs, ri)
    /\ ri' = ri + 1
    /\ rpc' = "loop"
    /\ UNCHANGED <<rglobal, rcfg, rargs, rsel, rstarted, rchild, rterm, rkilled, rsig, rexit, rcode>>
    /\ RunFrame

\* lines 181-182: the launch loop is over
RunLaunched ==
    /\ rexit = "running" /\ ~rsig /\ rpc = "loop" /\ ri > Len(rsel)
    /\ rpc' = "wait" /\ ri' = 1
    /\ UNCHANGED <<rglobal, rcfg, rargs, rsel, rstarted, rprocs, rchild, rterm, rkilled, rsig,
                    rexit, rcode>>
    /\ RunFrame

\* lines 183-186: p.wait() returns once the child has exited
RunWait ==
    /\ rexit = "running" /\ ~rsig /\ rpc = "wait" /\ ri <= Len(rprocs)
    /\ rchild[rprocs[ri]] \in {"exited0", "exited1"}
    /\ rcode' = IF rchild[rprocs[ri]] = "exited1" /\ rcode = 0 THEN 1 ELSE rcode
    /\ ri' = ri + 1
    /\ UNCHANGED <<rglobal, rcfg, rargs, rsel, rpc, rstarted, rprocs, rchild, rterm, rkilled,
                    rsig, rexit>>
    /\ RunFrame

\* line 187
RunReturn ==
    /\ rexit = "running" /\ ~rsig /\ rpc = "wait" /\ ri > Len(rprocs)
    /\ rexit' = "returned" /\ rpc' = "exit"
    /\ UNCHANGED <<rglobal, rcfg, rargs, rsel, ri, rstarted, rprocs, rchild, rterm, rkilled,
                    rsig, rcode>>
    /\ RunFrame

\* a child ends by itself
ChildExit ==
    /\ rexit = "running"
    /\ \E k \in 1..MaxSel, st \in {"exited0", "exited1"} :
          /\ rchild[k] = "running"
          /\ rchild' = [rchild EXCEPT ![k] = st]
    /\ UNCHANGED <<rglobal, rcfg, rargs, rsel, rpc, ri, rstarted, rprocs, rterm, rkilled, rsig,
                    rexit, rcode>>
    /\ RunFrame

\* Ctrl+C
RunSignal ==
    /\ rexit = "running" /\ ~rsig
    /\ rsig' = TRUE
    /\ UNCHANGED <<rglobal, rcfg, rargs, rsel, rpc, ri, rstarted, rprocs, rchild, rterm, rkilled,
                    rexit, rcode>>
    /\ RunFrame

\* lines 188-203: KeyboardInterrupt inside the try; the children of procs
\* that are still running after terminate() and the 10 s wait are killed
RunInterrupt ==
    /\ rexit = "running" /\ rsig /\ rpc # "start"
    /\ \E late \in SUBSET {k \in SeqSet(rprocs) : rchild[k] = "running"} :
          /\ rterm' = SeqSet(rprocs)
          /\ rkilled' = late
          /\ rchild' = [k \in 1..MaxSel |->
                           IF k \in late THEN "killed"
                           ELSE IF k \in SeqSet(rprocs) /\ rchild[k] = "running" THEN "terminated"
                           ELSE rchild[k]]
    /\ rexit' = "interrupted" /\ rcode' = 130 /\ rpc' = "exit" /\ rsig' = FALSE
    /\ UNCHANGED <<rglobal, rcfg, rargs, rsel, ri, rstarted, rprocs>>
    /\ RunFrame

\* KeyboardInterrupt before the try (lines 148-168): nothing catches it
RunInterruptEarly ==
    /\ rexit = "running" /\ rsig /\ rpc = "start"
    /\ rexit' = "traceback" /\ rcode' = 1 /\ rpc' = "exit" /\ rsig' = FALSE
    /\ UNCHANGED <<rglobal, rcfg, rargs, rsel, ri, rstarted, rprocs, rchild, rterm, rkilled>>
    /\ RunFrame

NextRun ==
    \/ RunValidate
    \/ RunLaunch
    \/ RunAppend
    \/ RunLaunched
    \/ RunWait
    \/ RunReturn
    \/ ChildExit
    \/ RunSignal
    \/ RunInterrupt
    \/ RunInterruptEarly

SpecRun == InitRun /\ [][NextRun]_vars

(***************************************************************************)
(* SpecGen: one call of _init_save_folder_for_instance                     *)
(***************************************************************************)
InitGen ==
    /\ groot \in {NoRoot} \cup {[isdir |-> TRUE, entries |-> E] : E \in SUBSET RootEntries}
    /\ grungame \in BOOLEAN
    /\ gtimeout \in 0..MaxTimeout
    /\ gstub \in BOOLEAN
    /\ gpc = "start" /\ gnow = 0 /\ gdeadline = 0 /\ gproc = "none" /\ gterm = FALSE
    /\ guser = <<>> /\ gres = "none" /\ gseen = {}
    /\ CoreRest
    /\ SaveIdle
    /\ RunIdle
    /\ MenuIdle
    /\ InputIdle

\* leaving the try block: the finally block, then the return or the error
GenLeave(uid, res) ==
    /\ gproc' = finally_stop(gproc, gstub)
    /\ gterm' = TRUE
    /\ guser' = uid
    /\ gres' = res
    /\ gpc' = "done"

\* lines 85-104
GenStart ==
    /\ gpc = "start"
    /\ LET uid == _find_numeric_id_dir(groot)
       IN IF uid # <<>>
          THEN /\ guser' = uid /\ gseen' = {uid} /\ gres' = "returned" /\ gpc' = "done"
               /\ UNCHANGED <<groot, gproc, gdeadline>>
          ELSE IF ~grungame
          THEN /\ gres' = "MissingRunGame" /\ gpc' = "done"
               /\ UNCHANGED <<groot, gproc, gdeadline, guser, gseen>>
          ELSE /\ groot' = [groot EXCEPT !.isdir = TRUE]
               /\ gproc' = "running"
               /\ gdeadline' = gnow + 2 * gtimeout
               /\ gpc' = "loop"
               /\ UNCHANGED <<guser, gseen, gres>>
    /\ UNCHANGED <<grungame, gtimeout, gstub, gnow, gterm>>
    /\ GenFrame

\* lines 105-131: one turn of the loop, or its end
GenPoll ==
    /\ gpc = "loop"
    /\ LET uid == _find_numeric_id_dir(groot)
       IN IF gnow >= gdeadline
          THEN GenLeave(guser, "Timeout") /\ UNCHANGED <<gnow, gseen>>
          ELSE IF uid # <<>>
          THEN GenLeave(uid, "returned") /\ gseen' = gseen \cup {uid} /\ UNCHANGED gnow
          ELSE IF gproc # "running"
          THEN GenLeave(uid, "ExitedEarly") /\ UNCHANGED <<gnow, gseen>>
          ELSE /\ gnow' = gnow + 1
               /\ UNCHANGED <<gproc, gterm, guser, gres, gpc, gseen>>
    /\ UNCHANGED <<groot, grungame, gtimeout, gstub, gdeadline>>
    /\ GenFrame

\* the game makes its save id folder
GameMakesId ==
    /\ gpc = "loop" /\ gproc = "running"
    /\ \E n \in IdNames :
          /\ \A e \in groot.entries : e.name # n
          /\ groot' = [groot EXCEPT !.entries = @ \cup {DirEntry(n, TRUE)}]
    /\ UNCHANGED <<grungame, gtimeout, gstub, gpc, gnow, gdeadline, gproc, gterm, guser, gres,
                    gseen>>
    /\ GenFrame

\* the game process ends by itself
GameExits ==
    /\ gpc = "loop" /\ gproc = "running"
    /\ gproc' = "exited"
    /\ UNCHANGED <<groot, grungame, gtimeout, gstub, gpc, gnow, gdeadline, gterm, guser, gres,
                    gseen>>
    /\ GenFrame

NextGen ==
    \/ GenStart
    \/ GenPoll
    \/ GameMakesId
    \/ GameExits

SpecGen == InitGen /\ [][NextGen]_vars

(***************************************************************************)
(* SpecMenu: the loop of _run.  The clock runs only while a '1' is         *)
(* pending; executing an action empties the key buffer.                    *)
(***************************************************************************)
InitMenu ==
    /\ MenuIdle
    /\ CoreRest
    /\ SaveIdle
    /\ RunIdle
    /\ GenIdle
    /\ InputIdle

\* the user types a key
KeyPress ==
    /\ mpc # "quit" /\ nkeys < MaxKeys
    /\ \E ch \in MenuKeys :
          kbuf' = Append(kbuf, [ch |-> ch, late |-> pending_1 /\ pel >= PendingWindow])
    /\ nkeys' = nkeys + 1
    /\ UNCHANGED <<pending_1, pel, mpc, wleft, ran, lastres>>
    /\ MenuFrame

\* lines 144-160: the deadline test, and otherwise the render up to getch
MenuTop ==
    /\ mpc = "top"
    /\ IF pending_1 /\ pel >= PendingWindow
       THEN /\ pending_1' = FALSE
            /\ ran' = Append(ran, 1)
            /\ kbuf' = <<>>
            /\ pel' = 0
            /\ lastres' = [kind |-> "timeout", late |-> FALSE, acts |-> <<1>>]
            /\ UNCHANGED <<mpc, wleft>>
       ELSE /\ \E lat \in 0..MaxRender : pel' = IF pending_1 THEN pel + lat ELSE pel
            /\ wleft' = PollTimeout
            /\ mpc' = "getch"
            /\ UNCHANGED <<pending_1, ran, kbuf, lastres>>
    /\ UNCHANGED nkeys
    /\ MenuFrame

\* getch waiting, no key there yet
MenuWait ==
    /\ mpc = "getch" /\ kbuf = <<>> /\ wleft > 0
    /\ wleft' = wleft - 1
    /\ pel' = IF pending_1 THEN pel + 1 ELSE pel
    /\ UNCHANGED <<pending_1, kbuf, mpc, ran, nkeys, lastres>>
    /\ MenuFrame

\* lines 160-250: getch returns a key or -1, and the key is handled
MenuGetch ==
    /\ mpc = "getch" /\ (kbuf # <<>> \/ wleft = 0)
    /\ LET ch == IF kbuf # <<>> THEN kbuf[1].ch ELSE NoKey
           late == kbuf # <<>> /\ kbuf[1].late
           r == menu_key(pending_1, ch)
       IN /\ pending_1' = r.pending
          /\ ran' = ran \o r.acts
          /\ kbuf' = IF r.acts # <<>> THEN <<>> ELSE IF kbuf # <<>> THEN Tail(kbuf) ELSE kbuf
          /\ pel' = IF r.pending /\ (~pending_1 \/ r.acts # <<>>) THEN 0
                     ELSE IF r.pending THEN pel ELSE 0
          /\ mpc' = IF r.quit THEN "quit" ELSE "top"
          /\ lastres' = IF pending_1 /\ r.acts # <<>>
                         THEN [kind |-> IF Len(r.acts) = 1 /\ r.acts[1] >= 10 THEN "combo" ELSE "then",
                               late |-> late, acts |-> r.acts]
                         ELSE lastres
    /\ wleft' = 0
    /\ UNCHANGED nkeys
    /\ MenuFrame

NextMenu ==
    \/ KeyPress
    \/ MenuTop
    \/ MenuWait
    \/ MenuGetch

SpecMenu == InitMenu /\ [][NextMenu]_vars

(***************************************************************************)
(* SpecInput: one call of _execute_action or of tap_combo, any one of its  *)
(* operations raising                                                      *)
(***************************************************************************)
InitInput ==
    /\ InputIdle
    /\ CoreRest
    /\ SaveIdle
    /\ RunIdle
    /\ GenIdle
    /\ MenuIdle

\* _run calls _execute_action for a menu entry
CallExecuteAction ==
    /\ xpc = "idle"
    /\ \E n \in 1..Len(_legacy_menu_actions), h \in HoldValues :
          /\ xcall' = [fn |-> "_execute_action", keys |-> _legacy_menu_actions[n].keys,
                        mouse |-> _legacy_menu_actions[n].mouse, hold_s |-> h]
          /\ xops' = _execute_action(_legacy_menu_actions[n], h)
    /\ xi' = 1 /\ xpc' = "run"
    /\ UNCHANGED <<held, xevents, xraised>>
    /\ InputFrame

\* tap_combo called with a list of key names
CallTapCombo ==
    /\ xpc = "idle"
    /\ \E keys \in TapKeyLists, h \in HoldValues :
          /\ xcall' = [fn |-> "tap_combo", keys |-> keys, mouse |-> "none", hold_s |-> h]
          /\ xops' = tap_combo(keys, h)
    /\ xi' = 1 /\ xpc' = "run"
    /\ UNCHANGED <<held, xevents, xraised>>
    /\ InputFrame

\* the next operation is made
InputStep ==
    /\ xpc = "run" /\ xi <= Len(xops)
    /\ held' = IF xops[xi].op = "press" THEN held \cup {xops[xi].inp}
                ELSE IF xops[xi].op = "release" THEN held \ {xops[xi].inp}
                ELSE held
    /\ xevents' = IF xops[xi].op = "sleep" THEN xevents
                   ELSE Append(xevents, [op |-> xops[xi].op, inp |-> xops[xi].inp])
    /\ xi' = xi + 1
    /\ UNCHANGED <<xcall, xops, xraised, xpc>>
    /\ InputFrame

\* the next operation raises (an unknown key, an X error, KeyboardInterrupt
\* in the sleep) and has no effect
InputRaise ==
    /\ xpc = "run" /\ xi <= Len(xops) /\ ~xraised
    /\ xraised' = TRUE
    /\ xi' = AfterRaise(xops, xi)
    /\ UNCHANGED <<xcall, xops, held, xevents, xpc>>
    /\ InputFrame

\* the call returns, or the exception leaves it
InputEnd ==
    /\ xpc = "run" /\ xi > Len(xops)
    /\ xpc' = "done"
    /\ UNCHANGED <<xcall, xops, xi, held, xevents, xraised>>
    /\ InputFrame

NextInput ==
    \/ CallExecuteAction
    \/ CallTapCombo
    \/ InputStep
    \/ InputRaise
    \/ InputEnd

SpecInput == InitInput /\ [][NextInput]_vars

(***************************************************************************)
(* Reference semantics of the memory, written from the byte contents       *)
(***************************************************************************)
RECURSIVE Pow256(_)
Pow256(i) == IF i = 0 THEN 1 ELSE 256 * Pow256(i - 1)

Readable(m, a, n) == \A i \in 0..(n - 1) : Mapped(m, a + i)

\* sum of byte(a+i) * 256^i over the n bytes at a
RECURSIVE LESum(_, _, _)
LESum(m, a, n) ==
    IF n = 0 THEN 0
    ELSE LESum(m, a, n - 1)
         + (IF ByteAt(m, a + n - 1) = 0 THEN 0 ELSE ByteAt(m, a + n - 1) * Pow256(n - 1))

TypedValue(m, a, t) ==
    IF t = "u64" THEN LESum(m, a, 8)
    ELSE LET top == ByteAt(m, a + 3)
         IN LESum(m, a, 3) + (IF top >= 128 THEN top - 256 ELSE top) * Pow256(3)

\* P(i) of a chain from R; -1 when some pointer on the way is not readable
RECURSIVE ChainPtr(_, _, _, _)
ChainPtr(m, R, offs, i) ==
    IF i = 0 THEN R
    ELSE LET p == ChainPtr(m, R, offs, i - 1)
         IN IF p = -1 \/ ~Readable(m, p + offs[i], 8) THEN -1
            ELSE LESum(m, p + offs[i], 8)

(***************************************************************************)
(* Claims on the memory reads (checked under SpecMem)                      *)
(***************************************************************************)

\* C1: read_exact returns exactly the n bytes that are at the address, or
\* raises the short-read error; a read that yields fewer than n bytes (0
\* included) always ends in the error, with no buffer, and no buffer is
\* longer than n.
C1_ReadExactExactOrShort ==
    (pc = "done" /\ op = "read_exact") =>
        /\ Len(outcome.bytes) <= reqlen
        /\ outcome.ok =>
              /\ Len(outcome.bytes) = reqlen
              /\ reads[1].got = reqlen
              /\ \A i \in 1..reqlen :
                    Mapped(mem, root + i - 1) /\ outcome.bytes[i] = ByteAt(mem, root + i - 1)
        /\ reads[1].got < reqlen =>
              /\ ~outcome.ok
              /\ outcome.err = "ShortRead"
              /\ outcome.bytes = <<>>
        /\ ~outcome.ok => reads[1].got < reqlen

\* C1 witness: a read that got some, but not all, of the bytes ended in the error
C1_Witness ==
    /\ pc = "done" /\ op = "read_exact"
    /\ reads[1].got > 0 /\ reads[1].got < reqlen
    /\ ~outcome.ok

\* C2: a walk over a chain of two or more offsets returns the typed value at
\* P(n-1) + o(n), each P(i) being the little-endian u64 at P(i-1) + o(i);
\* the health reads of main are the chain [OFF_STRUCT_PTR, OFF_HP].
C2_ChainWalkValue ==
    (pc = "done" /\ op \in {"chain", "health"} /\ Len(offsets) >= 2) =>
        LET n == Len(offsets)
            p == ChainPtr(mem, root, offsets, n - 1)
            readable == p # -1 /\ Readable(mem, p + offsets[n], Width(ftype))
        IN /\ outcome.ok => readable /\ outcome.val = TypedValue(mem, p + offsets[n], ftype)
           /\ (alive /\ readable) => outcome.ok

\* C2 witness: the chain [0x68, 0x3E8] read as i32 returned 450
C2_Witness ==
    /\ pc = "done" /\ op = "chain"
    /\ offsets = <<OFF_STRUCT_PTR, OFF_HP>> /\ ftype = "i32"
    /\ outcome.ok /\ outcome.val = 450

\* C3: a walk over a single offset has the outcome of the direct
\* read_typed_offset at root + offset, and issues that one read only.
C3_SingleOffsetIsDirectRead ==
    (pc = "done" /\ op = "chain" /\ Len(offsets) = 1) =>
        LET d == read_typed_offset(mem, alive, root, offsets[1], ftype)
        IN /\ outcome.ok = d.ok
           /\ outcome.val = d.val
           /\ outcome.err = d.err
           /\ outcome.at = d.at
           /\ Len(reads) = 1
           /\ reads[1].addr = root + offsets[1]
           /\ reads[1].n = Width(ftype)

\* C3 witness: a single-offset walk that returned a value
C3_Witness ==
    /\ pc = "done" /\ op = "chain" /\ Len(offsets) = 1
    /\ ftype = "i32" /\ outcome.ok /\ outcome.val = -1

\* C4: a short read ends the request there, for a chain walk and for the
\* health reads of main alike: it is the last read issued, no value comes
\* out, and the error carries the address of the failed read; the walker
\* does not advance its pointer and names the hop that failed.
C4_ShortReadAbortsWalk ==
    op \in {"chain", "health"} =>
        \A i \in 1..Len(reads) :
            reads[i].got < reads[i].n =>
                /\ i = Len(reads)
                /\ pc = "done"
                /\ ~outcome.ok
                /\ outcome.err = "ShortRead"
                /\ outcome.val = 0
                /\ outcome.at = reads[i].addr
                /\ op = "chain" =>
                      /\ outcome.hop = i
                      /\ hop = i
                      /\ current + offsets[i] = reads[i].addr

\* C4 witness: a pointer hop that got 3 of its 8 bytes, with hops left to do
C4_Witness ==
    /\ op = "chain" /\ pc = "done"
    /\ Len(reads) = 1 /\ Len(offsets) >= 2
    /\ reads[1].n = 8 /\ reads[1].got = 3
    /\ ~outcome.ok

(***************************************************************************)
(* Reference semantics of a listing, written from the regions              *)
(***************************************************************************)
\* positions in the listing of the regions whose path contains the needle
MatchingRegions(l, needle) ==
    {i \in 1..Len(l) : MapsLines[l[i]].base # -1 /\ Contains(needle, MapsLines[l[i]].path)}

MatchingBases(l, needle) == {MapsLines[l[i]].base : i \in MatchingRegions(l, needle)}

SetMin(S) == CHOOSE x \in S : \A y \in S : x <= y

\* the regions of the listing are in ascending address order, as the kernel lists them
Ascending(l) ==
    \A i, j \in 1..Len(l) :
        (i < j /\ MapsLines[l[i]].base # -1 /\ MapsLines[l[j]].base # -1)
            => MapsLines[l[i]].base <= MapsLines[l[j]].base

(***************************************************************************)
(* Claims on module_base (checked under SpecMaps)                          *)
(***************************************************************************)

\* C5: module_base returns the start address, parsed as hexadecimal, of the
\* first region in listing order whose path contains the needle (case
\* matters); lines that describe no region are passed over; it raises
\* exactly when no region's path contains the needle.
C5_FirstMatchingRegion ==
    mbpc = "done" =>
        LET M == MatchingRegions(listing, PROC_SUBSTR)
        IN IF M = {}
           THEN ~mbres.ok /\ mbres.err = "ModuleNotFound"
           ELSE mbres.ok /\ mbres.val = MapsLines[listing[SetMin(M)]].base

\* C5 witness: the base came from a line behind one that names the module
\* but has no start address
C5_Witness ==
    /\ mbpc = "done" /\ mbres.ok
    /\ Len(listing) >= 2
    /\ MapsLines[listing[1]].base = -1
    /\ Contains(PROC_SUBSTR, MapsLines[listing[1]].text)

RECURSIVE EnvEntries(_)
EnvEntries(env) ==
    IF env = <<>> THEN {}
    ELSE LET n == CHOOSE k \in 1..(Len(env) + 1) :
                      /\ (k = Len(env) + 1 \/ env[k] = NUL)
                      /\ \A j \in 1..(k - 1) : env[j] # NUL
         IN {SubSeq(env, 1, n - 1)} \cup EnvEntries(SubSeq(env, n + 1, Len(env)))

Returned == pid # 0

VisitedPid(i) == ParseInt(visited[i].entry)

(***************************************************************************)
(* Claims on find_game_pid (checked under SpecFind)                        *)
(***************************************************************************)

C9_UnreadableCandidateSkipped ==
    /\ \A i \in 1..Len(visited) :
          visited[i].failed =>
              /\ visited[i].res # "return"
              /\ idx > i
              /\ ~(Returned /\ i = Len(visited))
    /\ (fpc = "failed" /\ ~Returned /\ visited # <<>>) =>
          (setup.err = "ProcessNotFound" /\ Len(visited) = Len(procdir))

\* C9 witness: a game process with the module mapped whose environ could not
\* be read was passed over and a later process was returned
C9_Witness ==
    /\ Returned /\ wineprefix.some
    /\ \E i \in 1..Len(visited) :
          /\ visited[i].failed
          /\ i < Len(visited)
          /\ procs[VisitedPid(i)].cmd = "game"
          /\ procs[VisitedPid(i)].maps = "exact"
          /\ procs[VisitedPid(i)].env = "unreadable"

\* C10 as claimed: with an instance given, the process selected has the
\* environment entry WINEPREFIX equal to the instance's wineprefix
C10_Original_ExactWineprefix ==
    (Returned /\ wineprefix.some) =>
        (KeyEq \o wineprefix.val) \in EnvEntries(EnvBytes(procs[pid].env))

(***************************************************************************)
(* Claims on the type registry and the decoders (checked under SpecMem)    *)
(***************************************************************************)

\* C11: a typed read asked for with a tag no reader is registered for fails
\* with the unknown-type error carrying that tag, and issues no read of the
\* target's memory.
C11_UnknownTagReadsNothing ==
    (pc = "done" /\ op = "typed" /\ ftype \notin TypeTags) =>
        /\ ~outcome.ok
        /\ outcome.err = "UnknownType"
        /\ outcome.tag = ftype
        /\ reads = <<>>

\* an unregistered tag was asked for at an address where four bytes are mapped
C11_Witness ==
    /\ pc = "done" /\ op = "typed" /\ ftype = "f32"
    /\ outcome.err = "UnknownType"
    /\ Len(MemRead(mem, alive, root + offsets[1], 4)) = 4

\* C12: decoding under a registered tag yields a value only from a slice of
\* exactly the tag's width (8 for u64, 4 for i32); a slice of any other length
\* yields the width error, and a typed read that yields a value has read
\* exactly that many bytes.
C12_DecodeOnlyExactWidth ==
    /\ (pc = "done" /\ op = "decode") =>
          /\ Len(buf) # Width(ftype) => (~outcome.ok /\ outcome.err = "StructError")
          /\ outcome.ok => Len(buf) = Width(ftype)
    /\ (pc = "done" /\ op = "typed" /\ outcome.ok) =>
          (Len(reads) = 1 /\ reads[1].got = Width(ftype) /\ reads[1].n = Width(ftype))

\* a three-byte slice was handed to the u64 decoder and refused
C12_Witness ==
    /\ pc = "done" /\ op = "decode" /\ ftype = "u64"
    /\ buf = Cut3
    /\ outcome.err = "StructError"

SessionEdges ==
    {<<"Idle", "Resolving">>, <<"Resolving", "Active">>, <<"Resolving", "Failed">>,
     <<"Active", "Stopped">>, <<"Active", "Failed">>}

ReadFailed == sess = "Failed" /\ opened = 1 /\ serr.err = "ShortRead"

WalkSeen(w) == \E i \in 1..Len(outs) : outs[i].walk = w

C15_DiscoveryOnceInOrder ==
    /\ calls \in {<<>>, <<"find_game_pid">>, <<"find_game_pid", "module_base">>}
    /\ Len(calls) = 2 => pid \in Pids
    /\ sess \in {"Active", "Stopped"} => (calls = <<"find_game_pid", "module_base">> /\ setup.ok)
    /\ ReadFailed => calls = <<"find_game_pid", "module_base">>
    /\ (setup.err # "none") =>
          /\ sess = "Failed" /\ serr.err = setup.err
          /\ opened = 0 /\ handles = 0 /\ treads = <<>> /\ tick = 0
    /\ (setup.err = "ProcessNotFound") =>
          (calls = <<"find_game_pid">> /\ \A p \in Pids : ~PassesFilters(p))
    /\ (setup # SetupNone /\ wineprefix.some /\ gone = {} /\ \A p \in Pids : ~PassesFilters(p)) =>
          setup.err = "ProcessNotFound"
    /\ (setup.err = "ModuleNotFound") =>
          (pid \in Pids /\ MatchingRegions(MapsOf(procs[pid].maps), PROC_SUBSTR) = {})

\* find_game_pid returned a pid, module_base raised, and main ended with it
C15_Witness ==
    /\ sess = "Failed" /\ serr.err = "ModuleNotFound"
    /\ calls = <<"find_game_pid", "module_base">>
    /\ opened = 0

C23_Original_NoReadUnderInvalidConfig ==
    (pc = "done" /\ outcome.err = "UnknownType") => reads = <<>>

\* C25 as claimed: when find_game_pid has returned a process and that process
\* is still there, setup_memory_reader does not end with module-not-found.
C25_Original_FoundImpliesModuleResolves ==
    (fpc = "failed" /\ pid # 0 /\ pid \notin gone) => setup.err # "ModuleNotFound"



\* C24: a dump never replaces a scenario's save unless overwrite was asked:
\* a dump without overwrite onto a scenario that holds a save fails and
\* leaves every scenario as it was, and a dump with no active save fails
\* without creating the scenario folder
C24_DumpNeverReplacesUnasked ==
    (scmd.cmd = "dump") =>
        ( /\ ((HoldsSave(sbefore.scen[scmd.name]) /\ ~scmd.flag)
                 => (~scmd.ok /\ scmd.err \in {"DestinationExists", "NoCurrentSave"}
                        /\ scen = sbefore.scen))
          /\ ((sbefore.active = "none")
                 => (~scmd.ok /\ scmd.err = "NoCurrentSave" /\ scen = sbefore.scen))
          /\ \A n \in ScenarioNames :
                 (HoldsSave(sbefore.scen[n]) /\ scen[n] # sbefore.scen[n])
                     => (scmd.flag /\ n = scmd.name) )

C24_Witness ==
    /\ scmd.cmd = "dump" /\ ~scmd.flag /\ ~scmd.ok
    /\ sbefore.active = "a" /\ sbefore.scen[scmd.name] = "b"
    /\ scen[scmd.name] = "b"
    /\ ncmds = 2


\* C26: when main of run_instance exits with a configuration error, no
\* instance process has been started
C26_Original_ConfigErrorStartsNothing ==
    rexit = "config_error" => rstarted = {}

\* C27: when Ctrl+C ends main of run_instance with 130, every child that
\* was started has been sent terminate and none of them is left running
C27_Original_EveryStartedChildStopped ==
    rexit = "interrupted" =>
        (rcode = 130 /\ \A k \in rstarted : k \in rterm /\ rchild[k] # "running")


\* C28: once _init_save_folder_for_instance has spawned the game, it has
\* terminated it (killed it if it did not exit) when it ends, whichever
\* way it ends; it returns a user id only if a numeric id folder was seen
\* under the save root, and ends with an error otherwise
C28_GameStoppedAndIdObserved ==
    gpc = "done" =>
        /\ (gproc # "none") => (gterm /\ gproc \in {"exited", "terminated", "killed"})
        /\ (gproc = "killed") => gstub
        /\ (gres = "returned") =>
               (/\ guser # <<>> /\ guser \in gseen /\ IsDigitStr(guser)
                /\ DirEntry(guser, TRUE) \in groot.entries)
        /\ (gres # "returned") =>
               (gres \in {"MissingRunGame", "ExitedEarly", "Timeout"} /\ guser = <<>>)

C28_Witness ==
    /\ gpc = "done" /\ gres = "Timeout" /\ gproc = "killed" /\ gterm
    /\ gnow = 2 /\ DirEntry(<<"1", "x">>, TRUE) \in groot.entries

C28_WitnessFound ==
    /\ gpc = "done" /\ gres = "returned" /\ gproc = "terminated" /\ guser = <<"0", "7">>
    /\ gnow = 1


\* C29: a '1' typed with no prefix pending is resolved to 10, 11 or 12
\* only by a 0, 1 or 2 typed before the 0.35 s deadline, and to action 1
\* once the deadline has passed; every action run is one of 1..12
C29_Original_PrefixResolvedByDeadline ==
    /\ \A k \in 1..Len(ran) : ran[k] \in 1..12
    /\ (lastres.kind = "combo") => ~lastres.late

\* C30: when _execute_action or tap_combo has ended, by return or by an
\* exception, no key or button it pressed is still down
C30_Original_NothingHeldAfterInjection ==
    xpc = "done" => held = {}

====
